---- MODULE Spec2Model ----
(***************************************************************************)
(* Model of server.py: the presence map (SID_TO_MACHINE), the per-machine  *)
(* plan lifecycle (MACHINE_PLANS, MACHINE_PLAN_QUEUES,                     *)
(* MACHINE_PLAN_HISTORY), the production, downtime and scrap logs           *)
(* (SUBMISSION_LOG, DOWNTIME_LOG, SCRAP_LOG), the files they are saved to   *)
(* and the handlers that change or read them.                              *)
(* Every handler is one action: Flask-SocketIO on eventlet runs a handler  *)
(* without yielding between its reads and writes of the shared maps. The   *)
(* plan handlers are also laid out statement by statement, to follow what  *)
(* a crash or a failed write inside a handler leaves behind.               *)
(***************************************************************************)
EXTENDS Integers, Sequences, FiniteSets, TLC

\* ---------------------------------------------------------------- bounds
MaxRows == 2
MaxPlans == 3
MaxTime == 1
MaxLog == 2
MaxScrap == 2
MaxFrames == 2
MaxStepPlans == 2

\* ------------------------------------------------------ program constants
PlanRowLimit == 10

\* ---------------------------------------------------------------- inputs
Machines == {"M1", "M2"}
MachineNames == Machines \cup {""}
Sids == {"c1", "c2", "c3"}
\* the connections that send forms
FormSids == {"c1", "c2"}
Items == {"a"}
MessageTexts == {"", "hi"}
Times == 1..MaxTime
RawRows == [item : Items]
\* a decoded sheet: up to MaxRows rows, the rows of one sheet carrying one item
Sheets == {[i \in 1..n |-> [item |-> x]] : n \in 0..MaxRows, x \in Items}
LineIds == {m \o "_" \o ToString(i) : m \in Machines, i \in 1..MaxRows} \cup {""}

ALL == "*all*"
HTTP == "*http*"
NoSid == ""
NoSheet == <<>>

\* MACHINE_PLANS        machine name -> active plan (a sequence of rows)
\* MACHINE_PLAN_QUEUES  machine name -> sequence of queued plans
\* MACHINE_PLAN_HISTORY machine name -> sequence of [archived_at, plan]
\* SID_TO_MACHINE       connection id -> machine name
\* ROOMS                room name -> set of connection ids that joined it
\* STATE_FILE           the contents of machine_state.json; a file is <<document>>
\*                      when it holds a whole JSON document and <<>> when torn
\* SUBMISSION_LOG       the production entries, in arrival order
\* DOWNTIME_LOG         the downtime entries, in arrival order
\* PRODUCTION_FILE      the contents of production_log.json
\* DOWNTIME_FILE        the contents of downtime_log_data.json
\* TODAY                the calendar day of the server's clock
\* SCRAP_LOG            the scrap entries, in arrival order
\* SCRAP_FILE           the contents of scrap_log.json
\* running              the handlers that have begun and not returned, each
\*                      with its request, its position and its locals
\* req                  the request handled last (event, request.sid, data)
\* out                  the messages the last handler emitted, in emission order
\* The dicts are functions whose domain is the set of keys present.
VARIABLES MACHINE_PLANS, MACHINE_PLAN_QUEUES, MACHINE_PLAN_HISTORY,
          SID_TO_MACHINE, ROOMS, STATE_FILE,
          SUBMISSION_LOG, DOWNTIME_LOG, PRODUCTION_FILE, DOWNTIME_FILE, TODAY,
          SCRAP_LOG, SCRAP_FILE, running,
          req, out

vars == <<MACHINE_PLANS, MACHINE_PLAN_QUEUES, MACHINE_PLAN_HISTORY,
          SID_TO_MACHINE, ROOMS, STATE_FILE,
          SUBMISSION_LOG, DOWNTIME_LOG, PRODUCTION_FILE, DOWNTIME_FILE, TODAY,
          SCRAP_LOG, SCRAP_FILE, running,
          req, out>>

logs == <<SUBMISSION_LOG, DOWNTIME_LOG, PRODUCTION_FILE, DOWNTIME_FILE, TODAY>>

scrap == <<SCRAP_LOG, SCRAP_FILE>>

\* ------------------------------------------------------- dict primitives
Get(d, k, default) == IF k \in DOMAIN d THEN d[k] ELSE default

Put(d, k, v) == [x \in (DOMAIN d) \cup {k} |-> IF x = k THEN v ELSE d[x]]

Remove_nothing(d, k) == d

Remove(d, k) == [x \in (DOMAIN d) \ {k} |-> d[x]]

EmptyDict == [x \in {} |-> <<>>]

\* dict(d, **e): the keys of e laid over d
Update(d, e) ==
    [x \in (DOMAIN d) \cup (DOMAIN e) |-> IF x \in DOMAIN e THEN e[x] ELSE d[x]]

\* Python's None, and the truth value of a string or None
None == "*None*"

truthy(v) == v \notin {None, ""}

Emit(event, room, data) == [event |-> event, room |-> room, data |-> data]

Request(event, sid, machineName, lineId, sheet) ==
    [event |-> event, sid |-> sid, machineName |-> machineName,
     lineId |-> lineId, sheet |-> sheet]

\* what a plan handler leaves behind: the three maps, the messages it emitted
\* and whether it called save_machine_state
Result(plans, queues, history, saved, emitted) ==
    [plans |-> plans, queues |-> queues, history |-> history, saved |-> saved,
     out |-> emitted]

\* ------------------------------------------- save_json_file, machine state
\* What open(filename, 'w') and json.dump can come to: the document is
\* written; open fails and the file stays as it was; or the file is
\* truncated and the dump breaks off, which leaves no document.
WriteFaults == {"written", "refused", "torn"}

\* the explorations of the handlers as single actions take the write to go
\* through
WriteOutcomes == {"written"}

write_json(file, data, written) ==
    CASE written = "written" -> <<data>>
      [] written = "refused" -> file
      [] written = "torn" -> <<>>

\* save_json_file catches the IOError and prints it
save_json_file(file, data, written) == write_json(file, data, written)

\* load_json_file: the document, or the default when it does not decode
load_json_file(file, default) == IF file = <<>> THEN default ELSE file[1]

save_machine_state_without_queues(file, plans, queues, history, written) ==
    save_json_file(file, [plans |-> plans, queues |-> EmptyDict, history |-> history],
                   written)

save_machine_state(file, plans, queues, history, written) ==
    save_json_file(file, [plans |-> plans, queues |-> queues, history |-> history],
                   written)

\* ------------------------------------------------- dates and timestamps
\* The calendar days and the minutes of a day that requests speak of. A
\* datetime is [date, minute]; strings are parsed and formatted as strptime,
\* strftime, fromisoformat and isoformat do on these days and minutes.
Days == {1, 2}
Minutes == {480, 570}

Pad2(n) == IF n < 10 THEN "0" \o ToString(n) ELSE ToString(n)

\* the spellings of the days and minutes, laid out once
DateText == [date \in Days |-> "2024-01-" \o Pad2(date)]

TimeText == [minute \in Minutes |-> Pad2(minute \div 60) \o ":" \o Pad2(minute % 60)]

Datetimes == [date : Days, minute : Minutes]

\* strftime('%Y-%m-%d') of a date
strftime_date(date) == DateText[date]

\* '%H:%M' of a time of day
strftime_time(minute) == TimeText[minute]

\* %m and %d accept one digit as well as two
DateSpellings(date) == {DateText[date], "2024-1-" \o ToString(date)}

DateOf ==
    [s \in UNION {DateSpellings(date) : date \in Days} |->
        CHOOSE date \in Days : s \in DateSpellings(date)]

TimeOf ==
    [s \in {TimeText[minute] : minute \in Minutes} |->
        CHOOSE minute \in Minutes : s = TimeText[minute]]

\* datetime.strptime(s, '%Y-%m-%d').date(); ok = FALSE is the ValueError
strptime_date(s) ==
    IF s \in DOMAIN DateOf THEN [ok |-> TRUE, date |-> DateOf[s]]
    ELSE [ok |-> FALSE, date |-> 0]

strptime_time(s) ==
    IF s \in DOMAIN TimeOf THEN [ok |-> TRUE, minute |-> TimeOf[s]]
    ELSE [ok |-> FALSE, minute |-> 0]

strptime_lenient(entry_date, entry_time) ==
    [ok |-> TRUE,
     datetime |-> [date |-> IF strptime_date(entry_date).ok
                            THEN strptime_date(entry_date).date ELSE 1,
                   minute |-> IF strptime_time(entry_time).ok
                              THEN strptime_time(entry_time).minute ELSE 480]]

\* datetime.strptime(f"{entry_date} {entry_time}", "%Y-%m-%d %H:%M")
strptime(entry_date, entry_time) ==
    LET d == strptime_date(entry_date)
        t == strptime_time(entry_time)
    IN  [ok |-> d.ok /\ t.ok, datetime |-> [date |-> d.date, minute |-> t.minute]]

IsoText == [dt \in Datetimes |-> DateText[dt.date] \o "T" \o TimeText[dt.minute] \o ":00"]

\* datetime.isoformat()
isoformat(datetime) == IsoText[datetime]

\* the value of an <input type="datetime-local">
datetime_local(date, minute) == DateText[date] \o "T" \o TimeText[minute]

DatetimeOf ==
    [s \in {datetime_local(dt.date, dt.minute) : dt \in Datetimes}
            \cup {IsoText[dt] : dt \in Datetimes} |->
        CHOOSE dt \in Datetimes : s \in {datetime_local(dt.date, dt.minute), IsoText[dt]}]

\* datetime.fromisoformat(s), for the spelling a datetime-local input sends
\* and the one isoformat writes
fromisoformat(s) ==
    IF s \in DOMAIN DatetimeOf THEN [ok |-> TRUE, datetime |-> DatetimeOf[s]]
    ELSE [ok |-> FALSE, datetime |-> [date |-> 0, minute |-> 0]]

DisplayText == [dt \in Datetimes |-> DateText[dt.date] \o " " \o TimeText[dt.minute] \o ":00"]

\* datetime.strftime("%Y-%m-%d %H:%M:%S")
time_display(datetime) == DisplayText[datetime]

\* a < b on datetimes
earlier(a, b) == a.date < b.date \/ (a.date = b.date /\ a.minute < b.minute)

\* ---------------------------------- get_data_for_date, get_downtime_for_date
\* list.sort(key=lambda x: x[key], reverse=True): descending, and stable, so
\* entries with equal keys keep the order they had
RECURSIVE sort_reverse_ascending(_, _)
sort_reverse_ascending(log, key) ==
    IF log = <<>> THEN <<>>
    ELSE LET sorted == sort_reverse_ascending(SubSeq(log, 1, Len(log) - 1), key)
             x == log[Len(log)]
             n == Cardinality({i \in 1..Len(sorted) : earlier(sorted[i][key], x[key])})
         IN  SubSeq(sorted, 1, n) \o <<x>> \o SubSeq(sorted, n + 1, Len(sorted))

RECURSIVE sort_reverse(_, _)
sort_reverse(log, key) ==
    IF log = <<>> THEN <<>>
    ELSE LET sorted == sort_reverse(SubSeq(log, 1, Len(log) - 1), key)
             x == log[Len(log)]
             n == Cardinality({i \in 1..Len(sorted) : ~earlier(sorted[i][key], x[key])})
         IN  SubSeq(sorted, 1, n) \o <<x>> \o SubSeq(sorted, n + 1, Len(sorted))

on_date_any(entry, key, filter_date) == key \in DOMAIN entry

\* entry.get(key) and entry[key].date() == filter_date
on_date(entry, key, filter_date) ==
    key \in DOMAIN entry /\ entry[key].date = filter_date

\* the body shared by get_data_for_date and get_downtime_for_date
filter_by_date(log, key, date_str) ==
    IF ~truthy(date_str) THEN log
    ELSE LET filter_date == strptime_date(date_str)
         IN  IF ~filter_date.ok THEN log
             ELSE sort_reverse(SelectSeq(log, LAMBDA entry :
                                   on_date(entry, key, filter_date.date)), key)

get_data_for_date(submission_log, date_str) ==
    filter_by_date(submission_log, "datetime", date_str)

get_downtime_for_date(downtime_log, date_str) ==
    filter_by_date(downtime_log, "start_time", date_str)

\* --------------------------------------------------------- broadcast_data
MetricFields ==
    {"t1_crimp_height", "t1_insulation_height", "t1_crimp_width",
     "t1_insulation_width", "t1_pull_force",
     "t2_crimp_height", "t2_insulation_height", "t2_crimp_width",
     "t2_insulation_width", "t2_pull_force"}

Quantities == {10, 7}

QuantityOf ==
    [s \in {ToString(n) : n \in Quantities} |->
        CHOOSE n \in Quantities : s = ToString(n)]

ManualKey == [field \in MetricFields |-> field \o "_manual"]

MeasuredKey == [field \in MetricFields |-> field \o "_measured"]

py_or_second(a, b) == IF truthy(b) THEN b ELSE a

\* a or b
py_or(a, b) == IF truthy(a) THEN a ELSE b

\* the display record of a production entry; operator, shift, part number,
\* cable id, lengths, hours and the terminal ids are copied with .get and a
\* default in the same way and are left out
clean_entry(entry) ==
    Update([field \in MetricFields |->
               py_or(Get(entry, ManualKey[field], None),
                     Get(entry, MeasuredKey[field], None))],
           [time_display |-> time_display(entry["datetime"]),
            machine_name |-> Get(entry, "machine_name", "N/A")])

\* int(entry.get('produced_qty', 0)), or 0 on ValueError or TypeError
qty(entry) ==
    IF "produced_qty" \notin DOMAIN entry THEN 0
    ELSE IF entry["produced_qty"] \in DOMAIN QuantityOf
    THEN QuantityOf[entry["produced_qty"]]
    ELSE 0

add_qty_overwrite(totals, machine, n) ==
    IF \E i \in 1..Len(totals) : totals[i].machine = machine
    THEN LET i == CHOOSE j \in 1..Len(totals) : totals[j].machine = machine
         IN  [totals EXCEPT ![i].total_qty = n]
    ELSE Append(totals, [machine |-> machine, total_qty |-> n])

\* machine_qty_totals[machine] += n on a defaultdict(int); the dict keeps
\* its keys in the order they were first seen
add_qty(totals, machine, n) ==
    IF \E i \in 1..Len(totals) : totals[i].machine = machine
    THEN LET i == CHOOSE j \in 1..Len(totals) : totals[j].machine = machine
         IN  [totals EXCEPT ![i].total_qty = @ + n]
    ELSE Append(totals, [machine |-> machine, total_qty |-> n])

RECURSIVE machine_qty_totals(_)
machine_qty_totals(log_to_send) ==
    IF log_to_send = <<>> THEN <<>>
    ELSE LET entry == log_to_send[Len(log_to_send)]
         IN  add_qty(machine_qty_totals(SubSeq(log_to_send, 1, Len(log_to_send) - 1)),
                     Get(entry, "machine_name", "UNKNOWN"), qty(entry))

serializable_downtime(entry) ==
    [entry EXCEPT !["start_time"] = isoformat(@), !["end_time"] = isoformat(@)]

\* broadcast_data(date_str): the snapshot pushed to every client. The cable
\* stock is not changed by any handler modelled here and stays as loaded.
broadcast_data(date_str, submission_log, downtime_log, plans, today) ==
    LET date == IF truthy(date_str) THEN date_str ELSE strftime_date(today)
        log_to_send == get_data_for_date(submission_log, date)
        downtime_log_to_send == get_downtime_for_date(downtime_log, date)
    IN  Emit("update_dashboard", ALL,
             [log |-> [i \in 1..Len(log_to_send) |-> clean_entry(log_to_send[i])],
              chart_data |-> machine_qty_totals(log_to_send),
              machines |-> DOMAIN plans,
              initial_stock |-> EmptyDict,
              downtime_log |-> [i \in 1..Len(downtime_log_to_send) |->
                                   serializable_downtime(downtime_log_to_send[i])]])

\* ---------------------------------------------------------- upload_plan
LineId(target_machine, i) == target_machine \o "_" \o ToString(i)

head(sheet, n) == SubSeq(sheet, 1, IF Len(sheet) < n THEN Len(sheet) ELSE n)

plan_data_processed_zero_based(target_machine, sheet) ==
    LET plan_data_raw == head(sheet, PlanRowLimit)
    IN  [i \in 1..Len(plan_data_raw) |->
            [item |-> plan_data_raw[i].item,
             line_id |-> LineId(target_machine, i - 1),
             status |-> "pending"]]

plan_data_processed(target_machine, sheet) ==
    LET plan_data_raw == head(sheet, PlanRowLimit)
    IN  [i \in 1..Len(plan_data_raw) |->
            [item |-> plan_data_raw[i].item,
             line_id |-> LineId(target_machine, i),
             status |-> "pending"]]

has_pending(plan) == \E i \in 1..Len(plan) : plan[i].status # "completed"

has_active_pending_never(plans, target_machine) == FALSE

has_active_pending(plans, target_machine) ==
    /\ target_machine \in DOMAIN plans
    /\ has_pending(plans[target_machine])

enqueue_front(q, plan) == <<plan>> \o q

enqueue(q, plan) == Append(q, plan)

upload_plan(plans, queues, history, target_machine, sheet) ==
    IF target_machine = ""
    THEN Result(plans, queues, history, FALSE,
                <<Emit("http_response", HTTP, [status |-> 400, body |-> "missing"])>>)
    ELSE
    LET processed == plan_data_processed(target_machine, sheet) IN
    IF has_active_pending(plans, target_machine)
    THEN LET q == enqueue(Get(queues, target_machine, <<>>), processed)
         IN  Result(plans, Put(queues, target_machine, q), history, TRUE,
                    <<Emit("queued_plan_count", target_machine,
                           [count |-> Len(q), machineName |-> target_machine]),
                      broadcast_data(strftime_date(TODAY), SUBMISSION_LOG,
                                     DOWNTIME_LOG, plans, TODAY),
                      Emit("http_response", HTTP, [status |-> 200, body |-> "queued"])>>)
    ELSE LET plans1 == Put(plans, target_machine, processed)
         IN  Result(plans1, queues, history, TRUE,
                    <<Emit("update_worker_plan", target_machine,
                           [plan |-> processed, machineName |-> target_machine]),
                      Emit("queued_plan_count", target_machine,
                           [count |-> Len(Get(queues, target_machine, <<>>)),
                            machineName |-> target_machine]),
                      broadcast_data(strftime_date(TODAY), SUBMISSION_LOG,
                                     DOWNTIME_LOG, plans1, TODAY),
                      Emit("http_response", HTTP, [status |-> 200, body |-> "sent"])>>)

\* number of plans the state holds: the model's size measure
RECURSIVE SumLen(_, _)
SumLen(d, keys) ==
    IF keys = {} THEN 0
    ELSE LET k == CHOOSE x \in keys : TRUE
         IN  Len(d[k]) + SumLen(d, keys \ {k})

PlanCount(plans, queues, history) ==
    Cardinality(DOMAIN plans) + SumLen(queues, DOMAIN queues)
        + SumLen(history, DOMAIN history)

UploadPlan ==
    \E target_machine \in MachineNames, sheet \in Sheets, written \in WriteOutcomes :
        LET r == upload_plan(MACHINE_PLANS, MACHINE_PLAN_QUEUES,
                             MACHINE_PLAN_HISTORY, target_machine, sheet)
        IN  /\ PlanCount(r.plans, r.queues, r.history) <= MaxPlans
            /\ MACHINE_PLANS' = r.plans
            /\ MACHINE_PLAN_QUEUES' = r.queues
            /\ MACHINE_PLAN_HISTORY' = r.history
            /\ STATE_FILE' = IF r.saved
                              THEN save_machine_state(STATE_FILE, r.plans, r.queues,
                                                      r.history, written)
                              ELSE STATE_FILE
            /\ out' = r.out
            /\ req' = Request("upload_plan", NoSid, target_machine, "", sheet)
            /\ UNCHANGED <<SID_TO_MACHINE, ROOMS>>
            /\ UNCHANGED logs
            /\ UNCHANGED <<scrap, running>>

\* ------------------------------------------------ handle_mark_plan_complete
MatchingRows(plan, line_id) == {i \in 1..Len(plan) : plan[i].line_id = line_id}

mark_completed(plan, line_id) ==
    IF MatchingRows(plan, line_id) = {} THEN plan
    ELSE LET k == CHOOSE i \in MatchingRows(plan, line_id) :
                      \A j \in MatchingRows(plan, line_id) : i <= j
         IN  [plan EXCEPT ![k].status = "completed"]

promotion_due_never(plan, queue) == FALSE

promotion_due(plan, queue) == ~has_pending(plan) /\ queue # <<>>

pop0_last(queue) ==
    [next_plan |-> queue[Len(queue)], rest |-> SubSeq(queue, 1, Len(queue) - 1)]

pop0(queue) == [next_plan |-> Head(queue), rest |-> Tail(queue)]

archive_overwrite(history, now, plan) == <<[archived_at |-> now, plan |-> plan]>>

archive_skipped(history, now, plan) == history

archive(history, now, plan) == Append(history, [archived_at |-> now, plan |-> plan])

handle_mark_plan_complete(plans, queues, hist, machine_name, line_id, now) ==
    IF line_id = "" \/ machine_name = "" THEN Result(plans, queues, hist, FALSE, <<>>)
    ELSE IF machine_name \notin DOMAIN plans THEN Result(plans, queues, hist, FALSE, <<>>)
    ELSE
    LET plan == mark_completed(plans[machine_name], line_id)
        plans1 == [plans EXCEPT ![machine_name] = plan]
        queue == Get(queues, machine_name, <<>>)
        updated == Emit("update_worker_plan", machine_name,
                        [plan |-> plan, machineName |-> machine_name])
    IN  IF promotion_due(plan, queue)
        THEN LET popped == pop0(queue)
                 history == archive(Get(hist, machine_name, <<>>), now, plan)
             IN  Result([plans1 EXCEPT ![machine_name] = popped.next_plan],
                        [queues EXCEPT ![machine_name] = popped.rest],
                        Put(hist, machine_name, history), TRUE,
                        <<updated,
                          Emit("plan_history_update", machine_name,
                               [history |-> history, machineName |-> machine_name]),
                          Emit("update_worker_plan", machine_name,
                               [plan |-> popped.next_plan, machineName |-> machine_name]),
                          Emit("queued_plan_count", machine_name,
                               [count |-> Len(popped.rest), machineName |-> machine_name])>>)
        ELSE Result(plans1, queues, hist, TRUE,
                    <<updated,
                      Emit("queued_plan_count", machine_name,
                           [count |-> Len(queue), machineName |-> machine_name])>>)

MarkPlanComplete ==
    \E machine_name \in MachineNames, line_id \in LineIds, now \in Times,
       written \in WriteOutcomes :
        LET r == handle_mark_plan_complete(MACHINE_PLANS, MACHINE_PLAN_QUEUES,
                                           MACHINE_PLAN_HISTORY, machine_name, line_id, now)
        IN  /\ MACHINE_PLANS' = r.plans
            /\ MACHINE_PLAN_QUEUES' = r.queues
            /\ MACHINE_PLAN_HISTORY' = r.history
            /\ STATE_FILE' = IF r.saved
                              THEN save_machine_state(STATE_FILE, r.plans, r.queues,
                                                      r.history, written)
                              ELSE STATE_FILE
            /\ out' = r.out
            /\ req' = Request("mark_plan_complete", NoSid, machine_name, line_id, NoSheet)
            /\ UNCHANGED <<SID_TO_MACHINE, ROOMS>>
            /\ UNCHANGED logs
            /\ UNCHANGED <<scrap, running>>

\* ---------------------------------------------- handle_request_dequeue_plan
dequeue_failed_to_room(sid, machine_name) ==
    <<Emit("dequeue_failed", machine_name,
           [reason |-> "No queued plans", machineName |-> machine_name])>>

dequeue_failed(sid, machine_name) ==
    <<Emit("dequeue_failed", sid,
           [reason |-> "No queued plans", machineName |-> machine_name])>>

archive_current_if_done(plans, machine_name) ==
    /\ machine_name \in DOMAIN plans
    /\ Len(plans[machine_name]) > 0
    /\ ~has_pending(plans[machine_name])

archive_current(plans, machine_name) ==
    /\ machine_name \in DOMAIN plans
    /\ Len(plans[machine_name]) > 0

handle_request_dequeue_plan(plans, queues, hist, sid, machine_name, now) ==
    IF machine_name = "" THEN Result(plans, queues, hist, FALSE, <<>>)
    ELSE
    LET queue == Get(queues, machine_name, <<>>) IN
    IF queue = <<>> THEN Result(plans, queues, hist, FALSE, dequeue_failed(sid, machine_name))
    ELSE
    LET popped == pop0(queue)
        queues1 == [queues EXCEPT ![machine_name] = popped.rest]
        plans1 == Put(plans, machine_name, popped.next_plan)
        activated == <<Emit("dequeued_plan", machine_name,
                            [plan |-> popped.next_plan, machineName |-> machine_name]),
                       Emit("queued_plan_count", machine_name,
                            [count |-> Len(popped.rest), machineName |-> machine_name])>>
    IN  IF archive_current(plans, machine_name)
        THEN LET history == archive(Get(hist, machine_name, <<>>), now,
                                    plans[machine_name])
             IN  Result(plans1, queues1, Put(hist, machine_name, history), TRUE,
                        <<Emit("plan_history_update", machine_name,
                               [history |-> history, machineName |-> machine_name])>>
                            \o activated)
        ELSE Result(plans1, queues1, hist, TRUE, activated)

RequestDequeuePlan ==
    \E sid \in Sids, machine_name \in MachineNames, now \in Times,
       written \in WriteOutcomes :
        LET r == handle_request_dequeue_plan(MACHINE_PLANS, MACHINE_PLAN_QUEUES,
                                             MACHINE_PLAN_HISTORY, sid, machine_name, now)
        IN  /\ MACHINE_PLANS' = r.plans
            /\ MACHINE_PLAN_QUEUES' = r.queues
            /\ MACHINE_PLAN_HISTORY' = r.history
            /\ STATE_FILE' = IF r.saved
                              THEN save_machine_state(STATE_FILE, r.plans, r.queues,
                                                      r.history, written)
                              ELSE STATE_FILE
            /\ out' = r.out
            /\ req' = Request("request_dequeue_plan", sid, machine_name, "", NoSheet)
            /\ UNCHANGED <<SID_TO_MACHINE, ROOMS>>
            /\ UNCHANGED logs
            /\ UNCHANGED <<scrap, running>>

\* ----------------------- handle_request_plan_history, _request_queued_plans
handle_request_plan_history(history, sid, machine_name) ==
    IF ~truthy(machine_name) THEN <<>>
    ELSE <<Emit("plan_history", sid,
                [history |-> Get(history, machine_name, <<>>),
                 machineName |-> machine_name])>>

handle_request_queued_plans_to_room(queues, sid, machine_name) ==
    IF ~truthy(machine_name) THEN <<>>
    ELSE <<Emit("queued_plans", machine_name,
                [queued_plans |-> Get(queues, machine_name, <<>>),
                 machineName |-> machine_name])>>

handle_request_queued_plans(queues, sid, machine_name) ==
    IF ~truthy(machine_name) THEN <<>>
    ELSE <<Emit("queued_plans", sid,
                [queued_plans |-> Get(queues, machine_name, <<>>),
                 machineName |-> machine_name])>>

RequestPlanHistory ==
    \E sid \in FormSids, machine_name \in MachineNames :
        /\ req' = Request("request_plan_history", sid, machine_name, "", NoSheet)
        /\ out' = handle_request_plan_history(MACHINE_PLAN_HISTORY, sid, machine_name)
        /\ UNCHANGED <<MACHINE_PLANS, MACHINE_PLAN_QUEUES, MACHINE_PLAN_HISTORY,
                       SID_TO_MACHINE, ROOMS, STATE_FILE>>
        /\ UNCHANGED logs
        /\ UNCHANGED <<scrap, running>>

RequestQueuedPlans ==
    \E sid \in FormSids, machine_name \in MachineNames :
        /\ req' = Request("request_queued_plans", sid, machine_name, "", NoSheet)
        /\ out' = handle_request_queued_plans(MACHINE_PLAN_QUEUES, sid, machine_name)
        /\ UNCHANGED <<MACHINE_PLANS, MACHINE_PLAN_QUEUES, MACHINE_PLAN_HISTORY,
                       SID_TO_MACHINE, ROOMS, STATE_FILE>>
        /\ UNCHANGED logs
        /\ UNCHANGED <<scrap, running>>

\* ------------------------------------------------- handle_join_machine_room
Values(d) == {d[k] : k \in DOMAIN d}

broadcast_online_status(sid_to_machine) ==
    Emit("update_machine_status", ALL, [onlineMachines |-> Values(sid_to_machine)])

already_connected_same_sid(sid_to_machine, request_sid, machine_name) ==
    \E sid \in DOMAIN sid_to_machine :
        sid_to_machine[sid] = machine_name /\ sid = request_sid

already_connected_any(sid_to_machine, request_sid, machine_name) ==
    \E sid \in DOMAIN sid_to_machine : sid_to_machine[sid] = machine_name

already_connected(sid_to_machine, request_sid, machine_name) ==
    \E sid \in DOMAIN sid_to_machine :
        sid_to_machine[sid] = machine_name /\ sid # request_sid

join_room_exclusive(rooms, sid, room) ==
    Put([r \in DOMAIN rooms |-> rooms[r] \ {sid}], room, Get(rooms, room, {}) \cup {sid})

join_room(rooms, sid, room) == Put(rooms, room, Get(rooms, room, {}) \cup {sid})

\* Flask-SocketIO takes a disconnected sid out of every room it had joined
leave_all_rooms(rooms, sid) == [room \in DOMAIN rooms |-> rooms[room] \ {sid}]

JoinMachineRoom ==
    \E sid \in Sids, machine_name \in MachineNames :
        /\ req' = Request("join_machine_room", sid, machine_name, "", NoSheet)
        /\ UNCHANGED <<MACHINE_PLANS, MACHINE_PLAN_QUEUES, MACHINE_PLAN_HISTORY, STATE_FILE>>
        /\ UNCHANGED logs
        /\ UNCHANGED <<scrap, running>>
        /\ IF machine_name = ""
           THEN /\ out' = <<Emit("join_confirm", sid,
                                 [success |-> FALSE, reason |-> "missing"])>>
                /\ UNCHANGED <<SID_TO_MACHINE, ROOMS>>
           ELSE IF already_connected(SID_TO_MACHINE, sid, machine_name)
           THEN /\ out' = <<Emit("join_confirm", sid,
                                 [success |-> FALSE, reason |-> "already connected"])>>
                /\ UNCHANGED <<SID_TO_MACHINE, ROOMS>>
           ELSE /\ SID_TO_MACHINE' = Put(SID_TO_MACHINE, sid, machine_name)
                /\ ROOMS' = join_room(ROOMS, sid, machine_name)
                /\ out' = <<broadcast_online_status(SID_TO_MACHINE'),
                            Emit("update_worker_plan", sid,
                                 [plan |-> Get(MACHINE_PLANS, machine_name, <<>>),
                                  machineName |-> machine_name]),
                            Emit("queued_plan_count", sid,
                                 [count |-> Len(Get(MACHINE_PLAN_QUEUES, machine_name, <<>>)),
                                  machineName |-> machine_name]),
                            Emit("join_confirm", sid,
                                 [success |-> TRUE, machineName |-> machine_name])>>

\* -------------------------------------------------------- handle_disconnect
Disconnect ==
    \E sid \in Sids :
        /\ req' = Request("disconnect", sid, "", "", NoSheet)
        /\ UNCHANGED <<MACHINE_PLANS, MACHINE_PLAN_QUEUES, MACHINE_PLAN_HISTORY, STATE_FILE>>
        /\ UNCHANGED logs
        /\ UNCHANGED <<scrap, running>>
        /\ IF sid \in DOMAIN SID_TO_MACHINE
           THEN /\ SID_TO_MACHINE' = Remove(SID_TO_MACHINE, sid)
                /\ out' = <<broadcast_online_status(SID_TO_MACHINE')>>
           ELSE /\ UNCHANGED SID_TO_MACHINE
                /\ out' = <<>>
        /\ ROOMS' = leave_all_rooms(ROOMS, sid)

\* ------------------------------------------------- handle_send_live_message
LiveMessageRequest(sid, target_machine, message_text) ==
    [event |-> "send_live_message", sid |-> sid, machineName |-> target_machine,
     lineId |-> "", sheet |-> NoSheet, messageText |-> message_text]

is_online_always(sid_to_machine, target_machine) == TRUE

is_online(sid_to_machine, target_machine) == target_machine \in Values(sid_to_machine)

handle_send_live_message(sid_to_machine, sid, target_machine, message_text) ==
    IF target_machine = "" \/ message_text = ""
    THEN <<Emit("message_sent_confirm", sid,
                [success |-> FALSE, machineName |-> target_machine,
                 reason |-> "missing"])>>
    ELSE IF is_online(sid_to_machine, target_machine)
    THEN <<Emit("live_message", target_machine, [message |-> message_text]),
           Emit("message_sent_confirm", sid,
                [success |-> TRUE, machineName |-> target_machine])>>
    ELSE <<Emit("message_sent_confirm", sid,
                [success |-> FALSE, machineName |-> target_machine,
                 reason |-> "offline"])>>

SendLiveMessage ==
    \E sid \in Sids, target_machine \in MachineNames, message_text \in MessageTexts :
        /\ req' = LiveMessageRequest(sid, target_machine, message_text)
        /\ out' = handle_send_live_message(SID_TO_MACHINE, sid, target_machine, message_text)
        /\ UNCHANGED <<MACHINE_PLANS, MACHINE_PLAN_QUEUES, MACHINE_PLAN_HISTORY,
                       SID_TO_MACHINE, ROOMS, STATE_FILE>>
        /\ UNCHANGED logs
        /\ UNCHANGED <<scrap, running>>

\* ----------------------------------------------------- the worker's forms
\* What a worker sends: dicts of strings. A field is missing when its key is
\* absent.
Without(data, k) == [x \in (DOMAIN data) \ {k} |-> data[x]]

ProductionForm(entry_date, entry_time, machine_name, produced_qty) ==
    [entry_date |-> entry_date, entry_time |-> entry_time,
     machine_name |-> machine_name, produced_qty |-> produced_qty]

PlainForm == ProductionForm(strftime_date(1), strftime_time(480), "M1", "10")

\* a measured and a manual reading of one metric, either of them possibly
\* left out (None) or left blank
Metric(field, manual, measured) ==
    Update(IF manual = None THEN EmptyDict ELSE [x \in {field \o "_manual"} |-> manual],
           IF measured = None THEN EmptyDict
           ELSE [x \in {field \o "_measured"} |-> measured])

\* every metric measured, the T1 metrics overridden by hand, each value
\* naming its field
AllMetrics ==
    [k \in {f \o "_measured" : f \in MetricFields}
            \cup {f \o "_manual" :
                    f \in {"t1_crimp_height", "t1_insulation_height", "t1_crimp_width",
                           "t1_insulation_width", "t1_pull_force"}}
       |-> "v:" \o k]

\* two entries of one machine on one day, a second machine, a second day;
\* a quantity that is no number, no quantity, no machine name; the metrics
WellFormedProduction ==
    {ProductionForm(strftime_date(f[1]), strftime_time(f[2]), f[3], f[4]) :
        f \in {<<1, 480, "M1", "10">>, <<1, 570, "M1", "7">>, <<1, 480, "M2", "10">>,
               <<2, 480, "M1", "10">>, <<2, 570, "M2", "7">>}}
    \cup {[PlainForm EXCEPT !["produced_qty"] = "abc"],
          Without(PlainForm, "produced_qty"),
          Without(PlainForm, "machine_name"),
          Update(PlainForm, AllMetrics)}
    \cup {Update(PlainForm, Metric("t1_crimp_height", manual, measured)) :
            manual \in {None, "", "5.2"}, measured \in {None, "5.0"}}

MalformedProduction ==
    {[PlainForm EXCEPT !["entry_date"] = "01/02/2024"],
     [PlainForm EXCEPT !["entry_time"] = "8 am"],
     Without(PlainForm, "entry_date"),
     Without(PlainForm, "entry_time")}

ProductionForms == WellFormedProduction \cup MalformedProduction

DowntimeForm(start_time, end_time, machine_name) ==
    [start_time |-> start_time, end_time |-> end_time, machine_name |-> machine_name]

PlainDowntime == DowntimeForm(datetime_local(1, 480), datetime_local(1, 570), "M1")

DowntimeForms ==
    {DowntimeForm(datetime_local(date, minute), datetime_local(1, 570), "M1") :
        date \in Days, minute \in Minutes}
    \cup {[PlainDowntime EXCEPT !["start_time"] = "yesterday"],
          [PlainDowntime EXCEPT !["end_time"] = "today"],
          Without(PlainDowntime, "start_time"),
          Without(PlainDowntime, "end_time")}

QueryDates ==
    {strftime_date(date) : date \in Days} \cup {"2024-1-1", "01/02/2024", "", None}

SubmitRequest(event, sid, data) ==
    [event |-> event, sid |-> sid, machineName |-> "", lineId |-> "",
     sheet |-> NoSheet, data |-> data]

DashboardRequest(date) ==
    [event |-> "request_dashboard_data", sid |-> NoSid, machineName |-> "",
     lineId |-> "", sheet |-> NoSheet, date |-> date]

\* ----------------------------------------------------- handle_submit_output
save_production_log(file, log, written) ==
    save_json_file(file,
                   [i \in 1..Len(log) |-> [log[i] EXCEPT !["datetime"] = isoformat(@)]],
                   written)


submission_failed(sid, reason) ==
    <<Emit("submission_success", sid, [success |-> FALSE, reason |-> reason])>>

\* returns the log, the file and the messages the handler leaves behind
handle_submit_output(submission_log, file, downtime_log, plans, today, sid, data, written) ==
    IF "entry_date" \notin DOMAIN data \/ "entry_time" \notin DOMAIN data
    THEN [log |-> submission_log, file |-> file,
          out |-> submission_failed(sid, "Missing data field")]
    ELSE
    LET parsed == strptime(data["entry_date"], data["entry_time"]) IN
    IF ~parsed.ok
    THEN [log |-> submission_log, file |-> file,
          out |-> submission_failed(sid, "Invalid data format")]
    ELSE
    LET entry == Put(data, "datetime", parsed.datetime)
        log == Append(submission_log, entry)
    IN  [log |-> log,
         file |-> save_production_log(file, log, written),
         out |-> <<broadcast_data(strftime_date(parsed.datetime.date), log,
                                  downtime_log, plans, today),
                   Emit("submission_success", sid, [success |-> TRUE])>>]

SubmitOutput ==
    \E sid \in FormSids, data \in ProductionForms, written \in WriteOutcomes :
        LET r == handle_submit_output(SUBMISSION_LOG, PRODUCTION_FILE, DOWNTIME_LOG,
                                      MACHINE_PLANS, TODAY, sid, data, written)
        IN  /\ Len(r.log) + Len(DOWNTIME_LOG) <= MaxLog
            /\ SUBMISSION_LOG' = r.log
            /\ PRODUCTION_FILE' = r.file
            /\ out' = r.out
            /\ req' = SubmitRequest("submit_output", sid, data)
            /\ UNCHANGED <<MACHINE_PLANS, MACHINE_PLAN_QUEUES, MACHINE_PLAN_HISTORY,
                           SID_TO_MACHINE, ROOMS, STATE_FILE,
                           DOWNTIME_LOG, DOWNTIME_FILE, TODAY>>
            /\ UNCHANGED <<scrap, running>>

\* --------------------------------------------------- handle_submit_downtime
\* save_downtime_data opens the file without catching IOError
save_downtime_data(file, log, written) ==
    write_json(file, [i \in 1..Len(log) |-> serializable_downtime(log[i])], written)

downtime_failed(sid, reason) ==
    <<Emit("downtime_submission_success", sid, [success |-> FALSE, reason |-> reason])>>

\* (end_time - start_time).total_seconds() / 3600, as a fraction of minutes
total_hours(start_time, end_time) ==
    [minutes |-> (end_time.date - start_time.date) * 1440
                    + end_time.minute - start_time.minute,
     per_hour |-> 60]

handle_submit_downtime(downtime_log, file, submission_log, plans, today, sid, data, written) ==
    LET rejected(reason) ==
            [log |-> downtime_log, file |-> file, out |-> downtime_failed(sid, reason)]
    IN
    IF "start_time" \notin DOMAIN data THEN rejected("Missing data field")
    ELSE IF ~fromisoformat(data["start_time"]).ok THEN rejected("Invalid data format")
    ELSE IF "end_time" \notin DOMAIN data THEN rejected("Missing data field")
    ELSE IF ~fromisoformat(data["end_time"]).ok THEN rejected("Invalid data format")
    ELSE
    LET start_time == fromisoformat(data["start_time"]).datetime
        end_time == fromisoformat(data["end_time"]).datetime
        downtime_entry ==
            [start_time |-> start_time,
             end_time |-> end_time,
             total_hours |-> total_hours(start_time, end_time),
             machine_name |-> Get(data, "machine_name", "N/A"),
             reason |-> Get(data, "reason", "No Reason Provided")]
        log == Append(downtime_log, downtime_entry)
    IN  IF written # "written"
        THEN [log |-> log,
              file |-> save_downtime_data(file, log, written),
              out |-> downtime_failed(sid, "Server error")]
        ELSE [log |-> log,
              file |-> save_downtime_data(file, log, written),
              out |-> <<broadcast_data(strftime_date(start_time.date),
                                       submission_log, log, plans, today),
                        Emit("downtime_submission_success", sid, [success |-> TRUE])>>]

SubmitDowntimeWith(outcomes) ==
    \E sid \in FormSids, data \in DowntimeForms, written \in outcomes :
        LET r == handle_submit_downtime(DOWNTIME_LOG, DOWNTIME_FILE, SUBMISSION_LOG,
                                        MACHINE_PLANS, TODAY, sid, data, written)
        IN  /\ Len(SUBMISSION_LOG) + Len(r.log) <= MaxLog
            /\ DOWNTIME_LOG' = r.log
            /\ DOWNTIME_FILE' = r.file
            /\ out' = r.out
            /\ req' = SubmitRequest("submit_downtime", sid, data)
            /\ UNCHANGED <<MACHINE_PLANS, MACHINE_PLAN_QUEUES, MACHINE_PLAN_HISTORY,
                           SID_TO_MACHINE, ROOMS, STATE_FILE,
                           SUBMISSION_LOG, PRODUCTION_FILE, TODAY>>
            /\ UNCHANGED <<scrap, running>>

SubmitDowntime == SubmitDowntimeWith(WriteOutcomes)

\* the same handler when the write of the downtime file may fail
SubmitDowntimeFaults == SubmitDowntimeWith(WriteFaults)

\* -------------------------------------------------- handle_scrap_submission
ScrapForm(machine, total_meters) == [machine |-> machine, total_meters |-> total_meters]

\* scrap of either machine; with a timestamp of the client's own, with a
\* blank one; without a machine
ScrapForms ==
    {ScrapForm(machine, "5") : machine \in Machines}
    \cup {Put(ScrapForm("M1", "5"), "timestamp", t) : t \in {"2023-12-31 23:59:59", ""}}
    \cup {[total_meters |-> "5"]}

save_scrap_log(file, log, written) == save_json_file(file, log, written)

\* datetime.now().strftime('%Y-%m-%d %H:%M:%S')
now_text(today, minute) == time_display([date |-> today, minute |-> minute])

\* the first emit goes out with the entry as it came in, before the
\* timestamp is set; the second with the entry as it was stored
handle_scrap_submission(scrap_log, file, data, today, minute, written) ==
    LET stamped == IF "timestamp" \notin DOMAIN data
                   THEN Put(data, "timestamp", now_text(today, minute))
                   ELSE data
        log == Append(scrap_log, stamped)
    IN  [log |-> log,
         file |-> save_scrap_log(file, log, written),
         out |-> <<Emit("submit_scrap_data", ALL, data),
                   Emit("submit_scrap_data", ALL, stamped)>>]

SubmitScrap ==
    \E sid \in FormSids, data \in ScrapForms, minute \in Minutes,
       written \in WriteOutcomes :
        LET r == handle_scrap_submission(SCRAP_LOG, SCRAP_FILE, data, TODAY, minute,
                                         written)
        IN  /\ Len(r.log) <= MaxScrap
            /\ SCRAP_LOG' = r.log
            /\ SCRAP_FILE' = r.file
            /\ out' = r.out
            /\ req' = SubmitRequest("submit_scrap_data", sid, data)
            /\ UNCHANGED <<MACHINE_PLANS, MACHINE_PLAN_QUEUES, MACHINE_PLAN_HISTORY,
                           SID_TO_MACHINE, ROOMS, STATE_FILE, running>>
            /\ UNCHANGED logs

\* ---------------------------------------------- handle_scrap_history_request
RequestScrapHistory ==
    \E sid \in FormSids :
        /\ out' = <<Emit("initial_scrap_data", sid, SCRAP_LOG)>>
        /\ req' = Request("request_scrap_history", sid, "", "", NoSheet)
        /\ UNCHANGED <<MACHINE_PLANS, MACHINE_PLAN_QUEUES, MACHINE_PLAN_HISTORY,
                       SID_TO_MACHINE, ROOMS, STATE_FILE, running>>
        /\ UNCHANGED logs
        /\ UNCHANGED scrap

\* -------------------------------------------- handle_request_dashboard_data
RequestDashboardData ==
    \E date \in QueryDates :
        /\ out' = <<broadcast_data(date, SUBMISSION_LOG, DOWNTIME_LOG,
                                   MACHINE_PLANS, TODAY)>>
        /\ req' = DashboardRequest(date)
        /\ UNCHANGED <<MACHINE_PLANS, MACHINE_PLAN_QUEUES, MACHINE_PLAN_HISTORY,
                       SID_TO_MACHINE, ROOMS, STATE_FILE>>
        /\ UNCHANGED logs
        /\ UNCHANGED <<scrap, running>>

\* --------------------------- the plan handlers, statement by statement
\* A handler that has begun and not returned is a frame: its request, the
\* statement it is to execute next, its local next_plan, and a record of the
\* maps as they were when it was entered. The statements of a handler are
\* grouped into blocks that end at each emit and each save.
StepNames == {"M1", ""}
StepLineIds == {"M1_1", "M1_2"}
StepSids == {"c1"}

Frame(request, pc, next_plan, entry) ==
    [request |-> request, pc |-> pc, next_plan |-> next_plan, entry |-> entry]

\* the maps as a handler finds them when it is entered
Entry(plans, queues, history) == [plans |-> plans, queues |-> queues, history |-> history]

\* what a block leaves behind: the maps, the file, the messages it emitted,
\* the next statement and the local
Effect(plans, queues, history, file, emitted, pc, next_plan) ==
    [plans |-> plans, queues |-> queues, history |-> history, file |-> file,
     out |-> emitted, pc |-> pc, next_plan |-> next_plan]

\* upload_plan, lines 318-360
upload_step(plans, queues, hist, file, frame, written) ==
    LET target_machine == frame.request.machineName
        keep(pc) == Effect(plans, queues, hist, file, <<>>, pc, <<>>)
        say(msg, pc) == Effect(plans, queues, hist, file, <<msg>>, pc, <<>>)
        saved(pc) ==
            Effect(plans, queues, hist,
                   save_machine_state(file, plans, queues, hist, written), <<>>, pc, <<>>)
        snapshot == broadcast_data(strftime_date(TODAY), SUBMISSION_LOG, DOWNTIME_LOG,
                                   plans, TODAY)
    IN  CASE frame.pc = "begin" ->
               IF target_machine = ""
               THEN say(Emit("http_response", HTTP, [status |-> 400, body |-> "missing"]),
                        "done")
               ELSE LET processed == plan_data_processed(target_machine,
                                                         frame.request.sheet)
                    IN  IF has_active_pending(plans, target_machine)
                        THEN Effect(plans,
                                    Put(queues, target_machine,
                                        enqueue(Get(queues, target_machine, <<>>),
                                                processed)),
                                    hist, file, <<>>, "save_queued", <<>>)
                        ELSE Effect(Put(plans, target_machine, processed), queues, hist,
                                    file, <<>>, "save_active", <<>>)
          [] frame.pc = "save_queued" -> saved("emit_count_queued")
          [] frame.pc = "emit_count_queued" ->
               say(Emit("queued_plan_count", target_machine,
                        [count |-> Len(Get(queues, target_machine, <<>>)),
                         machineName |-> target_machine]), "broadcast_queued")
          [] frame.pc = "broadcast_queued" -> say(snapshot, "respond_queued")
          [] frame.pc = "respond_queued" ->
               say(Emit("http_response", HTTP, [status |-> 200, body |-> "queued"]), "done")
          [] frame.pc = "save_active" -> saved("emit_active")
          [] frame.pc = "emit_active" ->
               say(Emit("update_worker_plan", target_machine,
                        [plan |-> plans[target_machine], machineName |-> target_machine]),
                   "emit_count_active")
          [] frame.pc = "emit_count_active" ->
               say(Emit("queued_plan_count", target_machine,
                        [count |-> Len(Get(queues, target_machine, <<>>)),
                         machineName |-> target_machine]), "broadcast")
          [] frame.pc = "broadcast" -> say(snapshot, "respond")
          [] frame.pc = "respond" ->
               say(Emit("http_response", HTTP, [status |-> 200, body |-> "sent"]), "done")

\* handle_mark_plan_complete, lines 730-762
mark_step(plans, queues, hist, file, frame, written) ==
    LET machine_name == frame.request.machineName
        line_id == frame.request.lineId
        keep(pc) == Effect(plans, queues, hist, file, <<>>, pc, frame.next_plan)
        say(msg, pc) == Effect(plans, queues, hist, file, <<msg>>, pc, frame.next_plan)
    IN  CASE frame.pc = "begin" ->
               IF line_id = "" \/ machine_name = "" THEN keep("done")
               ELSE IF machine_name \notin DOMAIN plans THEN keep("done")
               ELSE Effect([plans EXCEPT ![machine_name] = mark_completed(@, line_id)],
                           queues, hist, file, <<>>, "emit_plan", <<>>)
          [] frame.pc = "emit_plan" ->
               say(Emit("update_worker_plan", machine_name,
                        [plan |-> plans[machine_name], machineName |-> machine_name]),
                   "check")
          [] frame.pc = "check" ->
               IF promotion_due(plans[machine_name], Get(queues, machine_name, <<>>))
               THEN LET popped == pop0(queues[machine_name])
                    IN  Effect(plans, [queues EXCEPT ![machine_name] = popped.rest],
                               Put(hist, machine_name,
                                   archive(Get(hist, machine_name, <<>>),
                                           frame.request.now, plans[machine_name])),
                               file, <<>>, "emit_history", popped.next_plan)
               ELSE keep("save")
          [] frame.pc = "emit_history" ->
               say(Emit("plan_history_update", machine_name,
                        [history |-> hist[machine_name], machineName |-> machine_name]),
                   "install")
          [] frame.pc = "install" ->
               Effect([plans EXCEPT ![machine_name] = frame.next_plan], queues, hist,
                      file, <<>>, "emit_next", frame.next_plan)
          [] frame.pc = "emit_next" ->
               say(Emit("update_worker_plan", machine_name,
                        [plan |-> frame.next_plan, machineName |-> machine_name]), "save")
          [] frame.pc = "save" ->
               Effect(plans, queues, hist,
                      save_machine_state(file, plans, queues, hist, written), <<>>,
                      "emit_count", frame.next_plan)
          [] frame.pc = "emit_count" ->
               say(Emit("queued_plan_count", machine_name,
                        [count |-> Len(Get(queues, machine_name, <<>>)),
                         machineName |-> machine_name]), "done")

\* handle_request_dequeue_plan, lines 792-817
dequeue_step(plans, queues, hist, file, frame, written) ==
    LET machine_name == frame.request.machineName
        keep(pc) == Effect(plans, queues, hist, file, <<>>, pc, frame.next_plan)
        say(msg, pc) == Effect(plans, queues, hist, file, <<msg>>, pc, frame.next_plan)
    IN  CASE frame.pc = "begin" ->
               IF machine_name = "" THEN keep("done")
               ELSE IF Get(queues, machine_name, <<>>) = <<>>
               THEN Effect(plans, queues, hist, file,
                           dequeue_failed(frame.request.sid, machine_name), "done", <<>>)
               ELSE LET popped == pop0(queues[machine_name])
                        queues1 == [queues EXCEPT ![machine_name] = popped.rest]
                    IN  IF archive_current(plans, machine_name)
                        THEN Effect(plans, queues1,
                                    Put(hist, machine_name,
                                        archive(Get(hist, machine_name, <<>>),
                                                frame.request.now, plans[machine_name])),
                                    file, <<>>, "emit_history", popped.next_plan)
                        ELSE Effect(plans, queues1, hist, file, <<>>, "install",
                                    popped.next_plan)
          [] frame.pc = "emit_history" ->
               say(Emit("plan_history_update", machine_name,
                        [history |-> hist[machine_name], machineName |-> machine_name]),
                   "install")
          [] frame.pc = "install" ->
               Effect(Put(plans, machine_name, frame.next_plan), queues, hist, file,
                      <<>>, "save", frame.next_plan)
          [] frame.pc = "save" ->
               Effect(plans, queues, hist,
                      save_machine_state(file, plans, queues, hist, written), <<>>,
                      "emit_dequeued", frame.next_plan)
          [] frame.pc = "emit_dequeued" ->
               say(Emit("dequeued_plan", machine_name,
                        [plan |-> frame.next_plan, machineName |-> machine_name]),
                   "emit_count")
          [] frame.pc = "emit_count" ->
               say(Emit("queued_plan_count", machine_name,
                        [count |-> Len(Get(queues, machine_name, <<>>)),
                         machineName |-> machine_name]), "done")

step(plans, queues, hist, file, frame, written) ==
    CASE frame.request.event = "upload_plan" ->
            upload_step(plans, queues, hist, file, frame, written)
      [] frame.request.event = "mark_plan_complete" ->
            mark_step(plans, queues, hist, file, frame, written)
      [] frame.request.event = "request_dequeue_plan" ->
            dequeue_step(plans, queues, hist, file, frame, written)

\* the statements that write the file
SaveStatements == {"save", "save_queued", "save_active"}

\* the statements that hand a message to the socket
EmitStatements ==
    {"emit_plan", "emit_history", "emit_next", "emit_count", "emit_dequeued",
     "emit_count_queued", "broadcast_queued", "respond_queued",
     "emit_active", "emit_count_active", "broadcast", "respond"}

yields_at_emit(pc) == pc \in EmitStatements

\* whether the greenlet gives up the processor at a statement: emit puts the
\* packet on the connection's queue and returns, and the file is written
\* with blocking calls, so a handler runs on to its return
yields(pc) == FALSE

\* the frame that holds the processor, if any: one in the middle of a run of
\* statements that do not yield
Holders == {i \in 1..Len(running) : ~yields(running[i].pc)}

StepRequest(event, sid, machine_name, line_id, sheet, now) ==
    [event |-> event, sid |-> sid, machineName |-> machine_name, lineId |-> line_id,
     sheet |-> sheet, now |-> now, written |-> "unsaved"]

StepRequests ==
    {StepRequest("upload_plan", NoSid, m, "", sheet, 1) :
        m \in StepNames, sheet \in Sheets}
    \cup {StepRequest("mark_plan_complete", NoSid, m, line_id, NoSheet, now) :
            m \in StepNames, line_id \in StepLineIds, now \in Times}
    \cup {StepRequest("request_dequeue_plan", sid, m, "", NoSheet, now) :
            sid \in StepSids, m \in StepNames, now \in Times}

\* the variables a block of a plan handler leaves alone
aside == <<SID_TO_MACHINE, ROOMS, logs, scrap>>

\* run the next block of frame i, and return when the handler is through
Run(i, frame, written, emitted, request) ==
    LET e == step(MACHINE_PLANS, MACHINE_PLAN_QUEUES, MACHINE_PLAN_HISTORY, STATE_FILE,
                  frame, written)
        frames == IF i > Len(running) THEN Append(running, frame) ELSE running
    IN  /\ PlanCount(e.plans, e.queues, e.history) <= MaxStepPlans
        /\ MACHINE_PLANS' = e.plans
        /\ MACHINE_PLAN_QUEUES' = e.queues
        /\ MACHINE_PLAN_HISTORY' = e.history
        /\ STATE_FILE' = e.file
        /\ out' = emitted \o e.out
        /\ req' = IF frame.pc \in SaveStatements
                  THEN [request EXCEPT !.written = written]
                  ELSE request
        /\ running' = IF e.pc = "done"
                      THEN [j \in 1..(Len(frames) - 1) |->
                               IF j < i THEN frames[j] ELSE frames[j + 1]]
                      ELSE [frames EXCEPT ![i] = Frame(frame.request, e.pc, e.next_plan,
                                                       frame.entry)]
        /\ UNCHANGED aside

\* a handler is entered when no other holds the processor
Begin ==
    \E request \in StepRequests :
        /\ Holders = {}
        /\ Len(running) < MaxFrames
        /\ Run(Len(running) + 1,
               Frame(request, "begin", <<>>,
                     Entry(MACHINE_PLANS, MACHINE_PLAN_QUEUES, MACHINE_PLAN_HISTORY)),
               "written", <<>>, request)

\* the handler that holds the processor, or one that waits when none holds
\* it, executes its next block
Continue ==
    \E i \in 1..Len(running), written \in WriteFaults :
        /\ i \in Holders \/ Holders = {}
        /\ running[i].pc \in SaveStatements \/ written = "written"
        /\ Run(i, running[i], written, out, req)

\* load_production_log, load_downtime_data, load_scrap_log, load_machine_state
load_production_log(file) ==
    LET log == load_json_file(file, <<>>)
    IN  [i \in 1..Len(log) |->
            IF "datetime" \in DOMAIN log[i] /\ fromisoformat(log[i]["datetime"]).ok
            THEN [log[i] EXCEPT !["datetime"] = fromisoformat(@).datetime]
            ELSE log[i]]

load_downtime_data(file) ==
    LET data == load_json_file(file, <<>>)
    IN  [i \in 1..Len(data) |->
            [data[i] EXCEPT !["start_time"] = fromisoformat(@).datetime,
                            !["end_time"] = fromisoformat(@).datetime]]

load_scrap_log(file) == load_json_file(file, <<>>)

load_machine_state(file) ==
    load_json_file(file, [plans |-> EmptyDict, queues |-> EmptyDict,
                          history |-> EmptyDict])

\* the process dies, at a handler boundary or inside a handler, and is
\* started again: lines 88-91 and 155 load the maps and logs from the files,
\* the connections are gone
Crash ==
    /\ MACHINE_PLANS' = load_machine_state(STATE_FILE).plans
    /\ MACHINE_PLAN_QUEUES' = load_machine_state(STATE_FILE).queues
    /\ MACHINE_PLAN_HISTORY' = load_machine_state(STATE_FILE).history
    /\ SUBMISSION_LOG' = load_production_log(PRODUCTION_FILE)
    /\ DOWNTIME_LOG' = load_downtime_data(DOWNTIME_FILE)
    /\ SCRAP_LOG' = load_scrap_log(SCRAP_FILE)
    /\ SID_TO_MACHINE' = EmptyDict
    /\ ROOMS' = EmptyDict
    /\ running' = <<>>
    /\ req' = Request("restart", NoSid, "", "", NoSheet)
    /\ out' = <<>>
    /\ UNCHANGED <<STATE_FILE, PRODUCTION_FILE, DOWNTIME_FILE, SCRAP_FILE, TODAY>>

\* ------------------------------------------------------------ the clock
\* datetime.now() moves on to the next calendar day
Midnight ==
    /\ TODAY + 1 \in Days
    /\ TODAY' = TODAY + 1
    /\ req' = Request("midnight", NoSid, "", "", NoSheet)
    /\ out' = <<>>
    /\ UNCHANGED <<MACHINE_PLANS, MACHINE_PLAN_QUEUES, MACHINE_PLAN_HISTORY,
                   SID_TO_MACHINE, ROOMS, STATE_FILE,
                   SUBMISSION_LOG, DOWNTIME_LOG, PRODUCTION_FILE, DOWNTIME_FILE>>
    /\ UNCHANGED <<scrap, running>>

\* ------------------------------------------------------------------ init
Init ==
    /\ MACHINE_PLANS = EmptyDict
    /\ MACHINE_PLAN_QUEUES = EmptyDict
    /\ MACHINE_PLAN_HISTORY = EmptyDict
    /\ SID_TO_MACHINE = EmptyDict
    /\ ROOMS = EmptyDict
    /\ STATE_FILE = <<[plans |-> EmptyDict, queues |-> EmptyDict, history |-> EmptyDict]>>
    /\ SUBMISSION_LOG = <<>>
    /\ DOWNTIME_LOG = <<>>
    /\ PRODUCTION_FILE = << <<>> >>
    /\ DOWNTIME_FILE = << <<>> >>
    /\ TODAY = 1
    /\ SCRAP_LOG = <<>>
    /\ SCRAP_FILE = << <<>> >>
    /\ running = <<>>
    /\ req = Request("start", NoSid, "", "", NoSheet)
    /\ out = <<>>

\* The plan handlers neither read nor write SID_TO_MACHINE and the presence
\* handlers never write the plan maps, so the two halves are also explored
\* on their own.
NextPlans ==
    \/ UploadPlan
    \/ MarkPlanComplete
    \/ RequestDequeuePlan

\* the plan handlers together with the two read-only requests
NextReads ==
    \/ UploadPlan
    \/ MarkPlanComplete
    \/ RequestDequeuePlan
    \/ RequestPlanHistory
    \/ RequestQueuedPlans

NextPresence ==
    \/ JoinMachineRoom
    \/ Disconnect
    \/ SendLiveMessage

NextLogs ==
    \/ SubmitOutput
    \/ SubmitDowntime
    \/ RequestDashboardData
    \/ Midnight

NextScrap ==
    \/ SubmitScrap
    \/ RequestScrapHistory
    \/ Midnight

\* downtime submissions with failing writes, and restarts
NextDowntime ==
    \/ SubmitDowntimeFaults
    \/ Crash

NextSteps ==
    \/ Begin
    \/ Continue
    \/ Crash

Next ==
    \/ NextPlans
    \/ NextReads
    \/ NextPresence
    \/ NextLogs
    \/ NextScrap
    \/ NextDowntime
    \/ NextSteps

Spec == Init /\ [][Next]_vars

SpecPlans == Init /\ [][NextPlans]_vars

SpecReads == Init /\ [][NextReads]_vars

SpecPresence == Init /\ [][NextPresence]_vars

SpecLogs == Init /\ [][NextLogs]_vars

SpecScrap == Init /\ [][NextScrap]_vars

SpecDowntime == Init /\ [][NextDowntime]_vars

SpecSteps == Init /\ [][NextSteps]_vars

\* ================================================================ claims
\* Vocabulary of the claims, written out on its own terms.
ActiveOf(plans, m) == Get(plans, m, <<>>)

QueueOf(queues, m) == Get(queues, m, <<>>)

HistoryOf(history, m) == Get(history, m, <<>>)

OpenRows(plan) == {i \in 1..Len(plan) : plan[i].status # "completed"}

AllPending(plan) == \A i \in 1..Len(plan) : plan[i].status = "pending"

AllCompleted(plan) == \A i \in 1..Len(plan) : plan[i].status = "completed"

IsPrefix(s, t) == Len(s) <= Len(t) /\ SubSeq(t, 1, Len(s)) = s

\* the plan a sheet becomes: every row pending, line_id = machine "_" ordinal
FreshPlan(m, sheet) ==
    [i \in 1..Len(sheet) |->
        [item |-> sheet[i].item,
         line_id |-> m \o "_" \o ToString(i),
         status |-> "pending"]]

\* same rows, no row gone back from completed
SamePlan(before, after) ==
    /\ Len(after) = Len(before)
    /\ \A i \in 1..Len(before) :
          /\ after[i].item = before[i].item
          /\ after[i].line_id = before[i].line_id
          /\ (before[i].status = "completed" => after[i].status = "completed")

Emitted(event) == {i \in 1..Len(out) : out[i].event = event}

\* C1: presence uniqueness - no two distinct connection identifiers are mapped
\* to the same machine name.
C1_PresenceUnique ==
    \A s1 \in DOMAIN SID_TO_MACHINE, s2 \in DOMAIN SID_TO_MACHINE :
        s1 # s2 => SID_TO_MACHINE[s1] # SID_TO_MACHINE[s2]

\* a join was refused because another connection holds the machine, while two
\* connections are registered
C1_Witness ==
    /\ req.event = "join_machine_room"
    /\ req.machineName \in Machines
    /\ Len(out) = 1
    /\ out[1].event = "join_confirm"
    /\ Cardinality(DOMAIN SID_TO_MACHINE) = 2
    /\ \E sid \in DOMAIN SID_TO_MACHINE :
          sid # req.sid /\ SID_TO_MACHINE[sid] = req.machineName

\* C2: a machine has one active plan (one whole sheet, rows numbered 1..n), and
\* in every step the active plan either stays the same plan (rows may go from
\* pending to completed), or is replaced as a whole by the queue head in a
\* promotion (mark_plan_complete or request_dequeue_plan), or is replaced as a
\* whole by an uploaded plan when it had no row short of completed.
C2_ActiveReplacedWhole ==
    [][\A m \in Machines :
         LET before == ActiveOf(MACHINE_PLANS, m)
             after == ActiveOf(MACHINE_PLANS', m)
             queue == QueueOf(MACHINE_PLAN_QUEUES, m)
         IN  /\ \A i \in 1..Len(after) : after[i].line_id = m \o "_" \o ToString(i)
             /\ \/ /\ (m \in DOMAIN MACHINE_PLANS) <=> (m \in DOMAIN MACHINE_PLANS')
                   /\ SamePlan(before, after)
                \/ /\ req'.event \in {"mark_plan_complete", "request_dequeue_plan"}
                   /\ req'.machineName = m
                   /\ queue # <<>>
                   /\ after = Head(queue)
                   /\ QueueOf(MACHINE_PLAN_QUEUES', m) = Tail(queue)
                \/ /\ req'.event = "upload_plan"
                   /\ req'.machineName = m
                   /\ OpenRows(before) = {}
                   /\ after = FreshPlan(m, req'.sheet)
      ]_vars

\* an upload has replaced the active plan of a machine that already has an
\* archived plan
C2_Witness ==
    /\ req.event = "upload_plan"
    /\ req.machineName \in DOMAIN MACHINE_PLAN_HISTORY
    /\ Emitted("update_worker_plan") # {}
    /\ Len(MACHINE_PLANS[req.machineName]) > 0

\* C3: upload_plan for a machine whose active plan has a row short of completed
\* leaves the active plans and the history unchanged and appends the new plan at
\* the tail of the machine's queue, whose depth grows by exactly 1.
C3_UploadQueues ==
    [][\A m \in Machines :
         (/\ req'.event = "upload_plan"
          /\ req'.machineName = m
          /\ OpenRows(ActiveOf(MACHINE_PLANS, m)) # {})
         => /\ MACHINE_PLANS' = MACHINE_PLANS
            /\ MACHINE_PLAN_HISTORY' = MACHINE_PLAN_HISTORY
            /\ QueueOf(MACHINE_PLAN_QUEUES', m)
                 = Append(QueueOf(MACHINE_PLAN_QUEUES, m), FreshPlan(m, req'.sheet))
            /\ Len(QueueOf(MACHINE_PLAN_QUEUES', m))
                 = Len(QueueOf(MACHINE_PLAN_QUEUES, m)) + 1
            /\ \A o \in Machines \ {m} :
                  QueueOf(MACHINE_PLAN_QUEUES', o) = QueueOf(MACHINE_PLAN_QUEUES, o)
      ]_vars

\* an upload was queued behind an earlier queued plan of another length
C3_Witness ==
    /\ req.event = "upload_plan"
    /\ req.machineName \in DOMAIN MACHINE_PLAN_QUEUES
    /\ Emitted("update_worker_plan") = {}
    /\ LET q == MACHINE_PLAN_QUEUES[req.machineName]
       IN  Len(q) = 2 /\ Len(q[1]) # Len(q[2]) /\ q[2] = FreshPlan(req.machineName, req.sheet)

\* C4: upload_plan for a machine with no active plan, an empty one, or one whose
\* rows are all completed installs the new plan as active: every row pending,
\* line_id = machine name, "_", 1-based ordinal; the queues are unchanged.
C4_UploadActivates ==
    [][\A m \in Machines :
         (/\ req'.event = "upload_plan"
          /\ req'.machineName = m
          /\ OpenRows(ActiveOf(MACHINE_PLANS, m)) = {})
         => /\ m \in DOMAIN MACHINE_PLANS'
            /\ Len(MACHINE_PLANS'[m]) = Len(req'.sheet)
            /\ \A i \in 1..Len(req'.sheet) :
                  /\ MACHINE_PLANS'[m][i].status = "pending"
                  /\ MACHINE_PLANS'[m][i].line_id = m \o "_" \o ToString(i)
                  /\ MACHINE_PLANS'[m][i].item = req'.sheet[i].item
            /\ MACHINE_PLAN_QUEUES' = MACHINE_PLAN_QUEUES
      ]_vars

\* a sheet of MaxRows rows was installed as the active plan
C4_Witness ==
    /\ req.event = "upload_plan"
    /\ req.machineName \in DOMAIN MACHINE_PLANS
    /\ Len(req.sheet) = MaxRows
    /\ Emitted("update_worker_plan") # {}
    /\ AllPending(MACHINE_PLANS[req.machineName])
    /\ Len(MACHINE_PLANS[req.machineName]) = MaxRows

\* C5: when mark_plan_complete completes the last open row of the active plan
\* and the queue is not empty, then after the handler the active plan is the
\* former queue head with all rows pending, the queue is one shorter, and the
\* history has exactly one more entry, holding the plan that was active.
C5_Promotion ==
    [][\A m \in Machines :
         LET before == ActiveOf(MACHINE_PLANS, m)
             queue == QueueOf(MACHINE_PLAN_QUEUES, m)
             hist == HistoryOf(MACHINE_PLAN_HISTORY, m)
             hist2 == HistoryOf(MACHINE_PLAN_HISTORY', m)
         IN  (/\ req'.event = "mark_plan_complete"
              /\ req'.machineName = m
              /\ Cardinality(OpenRows(before)) = 1
              /\ \A i \in OpenRows(before) : before[i].line_id = req'.lineId
              /\ queue # <<>>)
             => /\ ActiveOf(MACHINE_PLANS', m) = Head(queue)
                /\ AllPending(ActiveOf(MACHINE_PLANS', m))
                /\ Len(QueueOf(MACHINE_PLAN_QUEUES', m)) = Len(queue) - 1
                /\ Len(hist2) = Len(hist) + 1
                /\ IsPrefix(hist, hist2)
                /\ SamePlan(before, hist2[Len(hist2)].plan)
                /\ AllCompleted(hist2[Len(hist2)].plan)
      ]_vars

\* a mark_plan_complete has archived a completed plan with rows and promoted a
\* queued plan with rows
C5_Witness ==
    /\ req.event = "mark_plan_complete"
    /\ Emitted("plan_history_update") # {}
    /\ LET m == req.machineName
           h == MACHINE_PLAN_HISTORY[m]
       IN  /\ Len(h[Len(h)].plan) = MaxRows
           /\ AllCompleted(h[Len(h)].plan)
           /\ Len(MACHINE_PLANS[m]) > 0
           /\ AllPending(MACHINE_PLANS[m])

\* C6: mark_plan_complete is idempotent - a second call with the same machine
\* and lineId right after the first leaves active plans, queues and history as
\* the first call left them.
C6_MarkIdempotent ==
    [][(/\ req.event = "mark_plan_complete"
        /\ req'.event = "mark_plan_complete"
        /\ req'.machineName = req.machineName
        /\ req'.lineId = req.lineId)
       => /\ MACHINE_PLANS' = MACHINE_PLANS
          /\ MACHINE_PLAN_QUEUES' = MACHINE_PLAN_QUEUES
          /\ MACHINE_PLAN_HISTORY' = MACHINE_PLAN_HISTORY
      ]_vars

\* C7: request_dequeue_plan on a machine with a non-empty queue archives the
\* active plan, when there is one with at least one row, as one new history
\* entry whether or not it has open rows, removes the queue front and installs
\* it as active; the rest of the queue keeps its order.
C7_Dequeue ==
    [][\A m \in Machines :
         LET current == ActiveOf(MACHINE_PLANS, m)
             queue == QueueOf(MACHINE_PLAN_QUEUES, m)
             hist == HistoryOf(MACHINE_PLAN_HISTORY, m)
             hist2 == HistoryOf(MACHINE_PLAN_HISTORY', m)
         IN  (/\ req'.event = "request_dequeue_plan"
              /\ req'.machineName = m
              /\ queue # <<>>)
             => /\ m \in DOMAIN MACHINE_PLANS'
                /\ MACHINE_PLANS'[m] = Head(queue)
                /\ QueueOf(MACHINE_PLAN_QUEUES', m) = Tail(queue)
                /\ Len(current) > 0
                     => /\ Len(hist2) = Len(hist) + 1
                        /\ IsPrefix(hist, hist2)
                        /\ hist2[Len(hist2)].plan = current
      ]_vars

\* a dequeue has archived a plan that still had an open row, and left a plan
\* in the queue
C7_Witness ==
    /\ req.event = "request_dequeue_plan"
    /\ Emitted("dequeued_plan") # {}
    /\ Emitted("plan_history_update") # {}
    /\ LET m == req.machineName
           h == MACHINE_PLAN_HISTORY[m]
       IN  /\ OpenRows(h[Len(h)].plan) # {}
           /\ MACHINE_PLAN_QUEUES[m] # <<>>

\* C8: request_dequeue_plan on a machine whose queue is empty, or that has no
\* plan state at all, replies dequeue_failed to the requester only and leaves
\* active plans, queues and history of every machine unchanged.
C8_DequeueEmpty ==
    [][\A m \in Machines :
         (/\ req'.event = "request_dequeue_plan"
          /\ req'.machineName = m
          /\ QueueOf(MACHINE_PLAN_QUEUES, m) = <<>>)
         => /\ MACHINE_PLANS' = MACHINE_PLANS
            /\ MACHINE_PLAN_QUEUES' = MACHINE_PLAN_QUEUES
            /\ MACHINE_PLAN_HISTORY' = MACHINE_PLAN_HISTORY
            /\ Len(out') = 1
            /\ out'[1].event = "dequeue_failed"
            /\ out'[1].room = req'.sid
      ]_vars

\* a dequeue was refused on a machine that has an active plan with open rows
C8_Witness ==
    /\ req.event = "request_dequeue_plan"
    /\ Emitted("dequeue_failed") # {}
    /\ req.machineName \in DOMAIN MACHINE_PLANS
    /\ OpenRows(MACHINE_PLANS[req.machineName]) # {}

\* C9: FIFO - in every step a machine's queue stays as it is, gains one plan at
\* its tail, or loses its head, and the plan it loses is the one that becomes
\* active; so queued plans are activated in the order they were queued.
C9_Fifo ==
    [][\A m \in Machines :
         LET queue == QueueOf(MACHINE_PLAN_QUEUES, m)
             queue2 == QueueOf(MACHINE_PLAN_QUEUES', m)
         IN  \/ queue2 = queue
             \/ Len(queue2) = Len(queue) + 1 /\ IsPrefix(queue, queue2)
             \/ /\ queue # <<>>
                /\ queue2 = Tail(queue)
                /\ ActiveOf(MACHINE_PLANS', m) = Head(queue)
      ]_vars

\* a plan was promoted out of a queue that holds a later plan of another length
C9_Witness ==
    /\ req.event \in {"mark_plan_complete", "request_dequeue_plan"}
    /\ Emitted("plan_history_update") # {}
    /\ LET m == req.machineName
       IN  /\ Len(MACHINE_PLAN_QUEUES[m]) = 1
           /\ Len(MACHINE_PLAN_QUEUES[m][1]) # Len(MACHINE_PLANS[m])

\* C10: history is append-only and immutable - in every step the history of
\* every machine keeps all its entries, rows and statuses included, as a prefix.
C10_HistoryAppendOnly ==
    [][\A m \in Machines :
         IsPrefix(HistoryOf(MACHINE_PLAN_HISTORY, m), HistoryOf(MACHINE_PLAN_HISTORY', m))
      ]_vars

\* a machine has two archived plans and a mark_plan_complete was handled for
\* it afterwards
C10_Witness ==
    /\ req.event = "mark_plan_complete"
    /\ req.machineName \in DOMAIN MACHINE_PLAN_HISTORY
    /\ Len(MACHINE_PLAN_HISTORY[req.machineName]) = 2
    /\ Emitted("plan_history_update") = {}
    /\ Emitted("update_worker_plan") # {}

\* C11: marking on a machine name that has no plan state, or with a line id
\* that matches no row of the machine's active plan, is a silent no-op: no
\* error goes out and the active plan, the queue and the history of every
\* machine stay as they were.
C11_MarkUnmatchedNoOp ==
    [][\A m \in Machines :
         (/\ req'.event = "mark_plan_complete"
          /\ req'.machineName = m
          /\ req'.lineId # ""
          /\ \/ m \notin DOMAIN MACHINE_PLANS
             \/ \A i \in 1..Len(MACHINE_PLANS[m]) :
                   MACHINE_PLANS[m][i].line_id # req'.lineId)
         => /\ MACHINE_PLANS' = MACHINE_PLANS
            /\ MACHINE_PLAN_QUEUES' = MACHINE_PLAN_QUEUES
            /\ MACHINE_PLAN_HISTORY' = MACHINE_PLAN_HISTORY
            /\ \A i \in 1..Len(out') : out'[i].event \notin {"error", "mark_failed"}
      ]_vars

\* What a client in a machine room holds after the first k messages of a
\* handler, applying them in order: the plan of the latest message carrying
\* one, and the archive of the latest plan_history_update.
RoomMessages(msgs, m) == SelectSeq(msgs, LAMBDA e : e.room = m)

ViewPlan(msgs, k, held) ==
    LET at == {i \in 1..k : msgs[i].event \in {"update_worker_plan", "dequeued_plan"}}
    IN  IF at = {} THEN held
        ELSE msgs[CHOOSE i \in at : \A j \in at : j <= i].data.plan

ViewHistory(msgs, k, held) ==
    LET at == {i \in 1..k : msgs[i].event = "plan_history_update"}
    IN  IF at = {} THEN held
        ELSE msgs[CHOOSE i \in at : \A j \in at : j <= i].data.history

\* C12: during a promotion, automatic or manual, a client of the machine room
\* that applies the messages in order always holds either the plan being
\* superseded or its successor, and once it holds the successor of a plan
\* that had rows it also holds the archive whose last entry is that plan.
C12_PromotionAtomic ==
    [][\A m \in Machines :
         (/\ req'.event \in {"mark_plan_complete", "request_dequeue_plan"}
          /\ req'.machineName = m
          /\ Len(QueueOf(MACHINE_PLAN_QUEUES', m)) < Len(QueueOf(MACHINE_PLAN_QUEUES, m)))
         => LET msgs == RoomMessages(out', m)
                old == ActiveOf(MACHINE_PLANS, m)
                new == ActiveOf(MACHINE_PLANS', m)
            IN  \A k \in 0..Len(msgs) :
                  LET plan == ViewPlan(msgs, k, old)
                      history == ViewHistory(msgs, k, HistoryOf(MACHINE_PLAN_HISTORY, m))
                  IN  \/ SamePlan(old, plan)
                      \/ /\ plan = new
                         /\ Len(old) > 0 =>
                              /\ Len(history) = Len(HistoryOf(MACHINE_PLAN_HISTORY, m)) + 1
                              /\ SamePlan(old, history[Len(history)].plan)
      ]_vars

\* a promotion out of a plan with rows into a different plan has been announced
C12_Witness ==
    /\ req.event \in {"mark_plan_complete", "request_dequeue_plan"}
    /\ Emitted("plan_history_update") # {}
    /\ \E i \in Emitted("plan_history_update"), j \in 1..Len(out) :
          /\ i < j
          /\ out[j].event \in {"update_worker_plan", "dequeued_plan"}
          /\ LET h == out[i].data.history
             IN  /\ Len(h[Len(h)].plan) > 0
                 /\ Len(out[j].data.plan) # Len(h[Len(h)].plan)

\* some connection other than c is registered under m
HeldByOther(sid_to_machine, c, m) ==
    \E d \in DOMAIN sid_to_machine : d # c /\ sid_to_machine[d] = m

\* some connection is registered under m
Online(sid_to_machine, m) ==
    \E d \in DOMAIN sid_to_machine : sid_to_machine[d] = m

\* C13: a join under a machine name fails with a conflict reply and leaves
\* presence as it was exactly when a different connection is registered under
\* that name; otherwise it succeeds and registers the connection under the
\* name, replacing whatever name the connection had before.
C13_JoinConflict ==
    [][\A c \in Sids, m \in Machines :
         (/\ req'.event = "join_machine_room"
          /\ req'.sid = c
          /\ req'.machineName = m)
         => IF HeldByOther(SID_TO_MACHINE, c, m)
            THEN /\ SID_TO_MACHINE' = SID_TO_MACHINE
                 /\ ROOMS' = ROOMS
                 /\ Len(out') = 1
                 /\ out'[1].event = "join_confirm"
                 /\ out'[1].room = c
                 /\ out'[1].data.success = FALSE
                 /\ out'[1].data.reason = "already connected"
            ELSE /\ DOMAIN SID_TO_MACHINE' = DOMAIN SID_TO_MACHINE \cup {c}
                 /\ SID_TO_MACHINE'[c] = m
                 /\ \A d \in DOMAIN SID_TO_MACHINE \ {c} :
                       SID_TO_MACHINE'[d] = SID_TO_MACHINE[d]
                 /\ out'[Len(out')].event = "join_confirm"
                 /\ out'[Len(out')].room = c
                 /\ out'[Len(out')].data.success = TRUE
      ]_vars

\* a connection that was registered under one machine has just been
\* registered under another while a third party holds a name of its own
C13_Witness ==
    /\ req.event = "join_machine_room"
    /\ out[Len(out)].data.success = TRUE
    /\ \E m \in Machines \ {req.machineName} : req.sid \in Get(ROOMS, m, {})
    /\ SID_TO_MACHINE[req.sid] = req.machineName

\* C14: when the connection registered under M disconnects, M is offline, the
\* announced online list no longer has it, and a join under M by another
\* connection right afterwards succeeds; the disconnect of a connection with
\* no registration changes nothing and announces nothing.
C14_OnlineIffHeld ==
    [][/\ \A c \in Sids :
            (req'.event = "disconnect" /\ req'.sid = c)
            => IF c \in DOMAIN SID_TO_MACHINE
               THEN /\ ~Online(SID_TO_MACHINE', SID_TO_MACHINE[c])
                    /\ c \notin DOMAIN SID_TO_MACHINE'
                    /\ \A d \in DOMAIN SID_TO_MACHINE \ {c} :
                          /\ d \in DOMAIN SID_TO_MACHINE'
                          /\ SID_TO_MACHINE'[d] = SID_TO_MACHINE[d]
                    /\ Len(out') = 1
                    /\ out'[1].event = "update_machine_status"
                    /\ SID_TO_MACHINE[c] \notin out'[1].data.onlineMachines
               ELSE /\ SID_TO_MACHINE' = SID_TO_MACHINE
                    /\ ROOMS' = ROOMS
                    /\ MACHINE_PLANS' = MACHINE_PLANS
                    /\ out' = <<>>
       /\ \A m \in Machines :
            (/\ req.event = "disconnect"
             /\ ~Online(SID_TO_MACHINE, m)
             /\ req'.event = "join_machine_room"
             /\ req'.machineName = m)
            => /\ SID_TO_MACHINE'[req'.sid] = m
               /\ out'[Len(out')].data.success = TRUE
      ]_vars

\* a holder has just disconnected while another connection stays registered
C14_Witness ==
    /\ req.event = "disconnect"
    /\ Emitted("update_machine_status") # {}
    /\ SID_TO_MACHINE # EmptyDict
    /\ \E m \in Machines : ~Online(SID_TO_MACHINE, m) /\ Get(ROOMS, m, {}) = {}
                           /\ m \in DOMAIN ROOMS

\* C15: a live message with a target and a text goes to the target's room,
\* followed by a success reply to the sender, exactly when some connection is
\* registered under the target; otherwise the sender alone gets a failure
\* reply and no live message goes out. Presence and plans are untouched.
C15_LiveMessage ==
    [][\A m \in Machines :
         (/\ req'.event = "send_live_message"
          /\ req'.machineName = m
          /\ req'.messageText # "")
         => /\ UNCHANGED <<SID_TO_MACHINE, ROOMS, MACHINE_PLANS, MACHINE_PLAN_QUEUES,
                           MACHINE_PLAN_HISTORY>>
            /\ IF Online(SID_TO_MACHINE, m)
               THEN /\ Len(out') = 2
                    /\ out'[1] = [event |-> "live_message", room |-> m,
                                  data |-> [message |-> req'.messageText]]
                    /\ out'[2].event = "message_sent_confirm"
                    /\ out'[2].room = req'.sid
                    /\ out'[2].data.success = TRUE
               ELSE /\ Len(out') = 1
                    /\ out'[1].event = "message_sent_confirm"
                    /\ out'[1].room = req'.sid
                    /\ out'[1].data.success = FALSE
      ]_vars

\* a live message has been delivered to the room of a machine held by a
\* connection other than the sender
C15_Witness ==
    /\ req.event = "send_live_message"
    /\ Emitted("live_message") # {}
    /\ HeldByOther(SID_TO_MACHINE, req.sid, req.machineName)
    /\ req.sid \notin DOMAIN SID_TO_MACHINE

\* ---- the logs
\* the strings that name a calendar date, and the date a string names
IsDate(s) == s \in DOMAIN DateOf

\* minutes since the first midnight
Stamp(datetime) == datetime.date * 1440 + datetime.minute

Occurs(e, log) == \E j \in 1..Len(log) : log[j] = e

Count(e, log) == Cardinality({j \in 1..Len(log) : log[j] = e})

ValidQueryDates == {q \in QueryDates : q \notin {None, ""} /\ IsDate(q)}

\* the last handler accepted the form it was sent
Accepted == \E i \in 1..Len(out) : out[i].data = [success |-> TRUE]

\* C16: once a production entry with entry date D is in the log, a query for
\* a date returns it exactly when the date is D, however the date is spelled;
\* likewise a downtime entry and the date of its start time.
C16_QueryRoundTrip ==
    /\ \A i \in 1..Len(SUBMISSION_LOG), q \in ValidQueryDates :
          Occurs(SUBMISSION_LOG[i], get_data_for_date(SUBMISSION_LOG, q))
             <=> DateOf[q] = DateOf[SUBMISSION_LOG[i]["entry_date"]]
    /\ \A i \in 1..Len(DOWNTIME_LOG), q \in ValidQueryDates :
          Occurs(DOWNTIME_LOG[i], get_downtime_for_date(DOWNTIME_LOG, q))
             <=> DateOf[q] = DOWNTIME_LOG[i]["start_time"].date
    /\ (req.event = "submit_downtime" /\ Accepted)
          => \E minute \in Minutes :
                req.data["start_time"]
                   = datetime_local(DOWNTIME_LOG[Len(DOWNTIME_LOG)]["start_time"].date,
                                    minute)

\* a production entry has just been appended to a log that holds an entry of
\* another day, and a query for its date returns it alone
C16_Witness ==
    /\ req.event = "submit_output"
    /\ Accepted
    /\ Len(SUBMISSION_LOG) = 2
    /\ SUBMISSION_LOG[1]["entry_date"] # SUBMISSION_LOG[2]["entry_date"]
    /\ Len(get_data_for_date(SUBMISSION_LOG, SUBMISSION_LOG[2]["entry_date"])) = 1

\* the positions of the log whose timestamp falls on the date q names
OnDate(log, key, q) == {i \in 1..Len(log) : log[i][key].date = DateOf[q]}

\* result holds exactly the entries of log at the positions in at, latest first
LatestFirst(result, log, key, at) ==
    /\ Len(result) = Cardinality(at)
    /\ \A i \in at : Count(log[i], result) = Cardinality({j \in at : log[j] = log[i]})
    /\ \A i, j \in 1..Len(result) :
          i < j => Stamp(result[i][key]) >= Stamp(result[j][key])

QueryAnswers(result, log, key, q) ==
    IF q \in {None, ""} \/ ~IsDate(q)
    THEN result = log
    ELSE LatestFirst(result, log, key, OnDate(log, key, q))

\* C17: a query without a date or with a malformed one returns the whole log
\* in arrival order; a query with a date returns exactly the entries whose
\* timestamp falls on it, latest first; and a dashboard request, which runs
\* both queries, leaves the stored logs as they were.
C17_QueryByDate ==
    /\ [](\A q \in QueryDates :
            /\ QueryAnswers(get_data_for_date(SUBMISSION_LOG, q), SUBMISSION_LOG,
                            "datetime", q)
            /\ QueryAnswers(get_downtime_for_date(DOWNTIME_LOG, q), DOWNTIME_LOG,
                            "start_time", q))
    /\ [][req'.event = "request_dashboard_data"
            => SUBMISSION_LOG' = SUBMISSION_LOG /\ DOWNTIME_LOG' = DOWNTIME_LOG]_vars

\* a dashboard request for a day has just been answered from a log whose two
\* entries of that day arrived earliest first
C17_Witness ==
    /\ req.event = "request_dashboard_data"
    /\ req.date \in ValidQueryDates
    /\ Len(SUBMISSION_LOG) = 2
    /\ OnDate(SUBMISSION_LOG, "datetime", req.date) = {1, 2}
    /\ Stamp(SUBMISSION_LOG[1]["datetime"]) < Stamp(SUBMISSION_LOG[2]["datetime"])
    /\ Len(out[1].data.log) = 2

\* ---- the snapshot
\* the snapshots among the messages of the last handler
Snapshots == {i \in 1..Len(out) : out[i].event = "update_dashboard"}

\* the date string the last handler built its snapshot for: the requested
\* date, today when none was requested, the date of the accepted entry
SnapshotDate ==
    CASE req.event = "request_dashboard_data" ->
            IF req.date \in {None, ""} THEN DateText[TODAY] ELSE req.date
      [] req.event = "submit_output" ->
            DateText[SUBMISSION_LOG[Len(SUBMISSION_LOG)]["datetime"].date]
      [] req.event = "submit_downtime" ->
            DateText[DOWNTIME_LOG[Len(DOWNTIME_LOG)]["start_time"].date]

\* the machine an entry counts for, an entry without a name under "UNKNOWN"
MachineOf(e) == IF "machine_name" \in DOMAIN e THEN e["machine_name"] ELSE "UNKNOWN"

\* the produced quantity of an entry, 0 when it is missing or no number
Produced(e) ==
    IF "produced_qty" \notin DOMAIN e THEN 0
    ELSE CASE e["produced_qty"] = "10" -> 10
           [] e["produced_qty"] = "7" -> 7
           [] OTHER -> 0

RECURSIVE ProducedSum(_, _)
ProducedSum(log, at) ==
    IF at = {} THEN 0
    ELSE LET i == CHOOSE j \in at : TRUE
         IN  Produced(log[i]) + ProducedSum(log, at \ {i})

\* C18: the chart of a snapshot for a valid date has exactly one row for each
\* machine with a production entry on that date (an entry without a machine
\* name counting for "UNKNOWN"), the row's total is the sum of that machine's
\* quantities on the date with a missing or non-numeric quantity as 0, and a
\* machine whose entries are all of other dates has no row.
C18_Chart ==
    (req.event \in {"request_dashboard_data", "submit_output", "submit_downtime"}
       /\ Snapshots # {} /\ IsDate(SnapshotDate))
    => \A s \in Snapshots :
          LET chart == out[s].data.chart_data
              at == OnDate(SUBMISSION_LOG, "datetime", SnapshotDate)
          IN  /\ \A i, j \in 1..Len(chart) : chart[i].machine = chart[j].machine => i = j
              /\ {chart[i].machine : i \in 1..Len(chart)}
                    = {MachineOf(SUBMISSION_LOG[i]) : i \in at}
              /\ \A i \in 1..Len(chart) :
                    chart[i].total_qty
                       = ProducedSum(SUBMISSION_LOG,
                                     {j \in at : MachineOf(SUBMISSION_LOG[j])
                                                    = chart[i].machine})

\* a snapshot whose chart adds two entries of one machine to 17 while the
\* log holds nothing else
C18_Witness ==
    /\ req.event = "request_dashboard_data"
    /\ req.date \in ValidQueryDates
    /\ Len(SUBMISSION_LOG) = 2
    /\ out[1].data.chart_data = <<[machine |-> "M1", total_qty |-> 17]>>

\* the two readings of a metric as the worker sent them
ManualReading(field) == field \o "_manual"

MeasuredReading(field) == field \o "_measured"

\* C19: every display record of a snapshot shows, for each of the ten T1/T2
\* metrics, the manual reading of its entry when that is present and not
\* blank, and the measured reading (nothing, when that is missing) otherwise.
C19_ManualOverMeasured ==
    (req.event \in {"request_dashboard_data", "submit_output", "submit_downtime"}
       /\ Snapshots # {})
    => \A s \in Snapshots :
          LET shown == out[s].data.log
              entries == get_data_for_date(SUBMISSION_LOG, SnapshotDate)
          IN  /\ Len(shown) = Len(entries)
              /\ \A i \in 1..Len(shown), field \in MetricFields :
                    LET e == entries[i]
                    IN  shown[i][field]
                          = IF ManualReading(field) \in DOMAIN e /\ e[ManualReading(field)] # ""
                            THEN e[ManualReading(field)]
                            ELSE IF MeasuredReading(field) \in DOMAIN e
                            THEN e[MeasuredReading(field)]
                            ELSE None

\* a snapshot shows the hand-entered crimp height of an entry that was also
\* measured, next to an entry whose blank manual reading gives way
C19_Witness ==
    /\ req.event = "request_dashboard_data"
    /\ Snapshots # {}
    /\ \E i, j \in 1..Len(SUBMISSION_LOG) :
          /\ "t1_crimp_height_manual" \in DOMAIN SUBMISSION_LOG[i]
          /\ "t1_crimp_height_measured" \in DOMAIN SUBMISSION_LOG[i]
          /\ SUBMISSION_LOG[i]["t1_crimp_height_manual"] = "5.2"
          /\ "t1_crimp_height_manual" \in DOMAIN SUBMISSION_LOG[j]
          /\ SUBMISSION_LOG[j]["t1_crimp_height_manual"] = ""
          /\ "t1_crimp_height_measured" \in DOMAIN SUBMISSION_LOG[j]
    /\ Len(out[1].data.log) = 2
    /\ {out[1].data.log[k]["t1_crimp_height"] : k \in 1..2} = {"5.2", "5.0"}

\* ---- submitting production
\* the form names a day and a minute
Parseable(data) ==
    /\ "entry_date" \in DOMAIN data
    /\ "entry_time" \in DOMAIN data
    /\ data["entry_date"] \in DOMAIN DateOf
    /\ data["entry_time"] \in DOMAIN TimeOf

\* C20: a production form without entry_date or entry_time, or whose date and
\* time do not parse, gets one failure reply with a reason, sent to the
\* sender alone; nothing is appended and no snapshot goes out. A form that
\* parses appends exactly one entry, the form with its timestamp, at the tail
\* of the log; then the snapshot of that entry's date goes to everyone, then
\* the success reply to the sender.
C20_SubmitProduction ==
    [][req'.event = "submit_output"
         => IF Parseable(req'.data)
            THEN LET date == DateOf[req'.data["entry_date"]]
                     minute == TimeOf[req'.data["entry_time"]]
                     n == Len(SUBMISSION_LOG)
                 IN  /\ Len(SUBMISSION_LOG') = n + 1
                     /\ SubSeq(SUBMISSION_LOG', 1, n) = SUBMISSION_LOG
                     /\ DOMAIN SUBMISSION_LOG'[n + 1]
                           = DOMAIN req'.data \cup {"datetime"}
                     /\ \A k \in DOMAIN req'.data :
                           SUBMISSION_LOG'[n + 1][k] = req'.data[k]
                     /\ SUBMISSION_LOG'[n + 1]["datetime"]
                           = [date |-> date, minute |-> minute]
                     /\ Len(out') = 2
                     /\ out'[1].event = "update_dashboard"
                     /\ out'[1].room = ALL
                     /\ Len(out'[1].data.log)
                           = Cardinality({i \in 1..(n + 1) :
                                 SUBMISSION_LOG'[i]["datetime"].date = date})
                     /\ \A i \in 1..Len(out'[1].data.log) :
                           \E dt \in Datetimes :
                              /\ dt.date = date
                              /\ out'[1].data.log[i]["time_display"] = DisplayText[dt]
                     /\ out'[2] = [event |-> "submission_success", room |-> req'.sid,
                                   data |-> [success |-> TRUE]]
            ELSE /\ SUBMISSION_LOG' = SUBMISSION_LOG
                 /\ PRODUCTION_FILE' = PRODUCTION_FILE
                 /\ Len(out') = 1
                 /\ out'[1].event = "submission_success"
                 /\ out'[1].room = req'.sid
                 /\ out'[1].data.success = FALSE
                 /\ truthy(out'[1].data.reason)
      ]_vars

\* a second entry, of a day other than today, has just been accepted after an
\* entry of another day
C20_Witness ==
    /\ req.event = "submit_output"
    /\ Accepted
    /\ Len(SUBMISSION_LOG) = 2
    /\ SUBMISSION_LOG[2]["datetime"].date # TODAY
    /\ SUBMISSION_LOG[1]["datetime"].date = TODAY
    /\ Len(out[1].data.log) = 1

\* ---- scrap
\* C21: a scrap submission always succeeds: exactly one entry is appended to
\* the scrap log, the entry as the client sent it plus a server timestamp
\* when the client sent none; every echo goes to everyone and carries the
\* stored entry, so every echoed and every stored entry has a timestamp.
C21_ScrapEcho ==
    [][req'.event = "submit_scrap_data"
         => LET n == Len(SCRAP_LOG)
                stored == SCRAP_LOG'[n + 1]
            IN  /\ Len(SCRAP_LOG') = n + 1
                /\ SubSeq(SCRAP_LOG', 1, n) = SCRAP_LOG
                /\ \A k \in DOMAIN req'.data : k \in DOMAIN stored /\ stored[k] = req'.data[k]
                /\ DOMAIN stored = DOMAIN req'.data \cup {"timestamp"}
                /\ out' # <<>>
                /\ \A i \in 1..Len(out') :
                      /\ out'[i].event = "submit_scrap_data"
                      /\ out'[i].room = ALL
                      /\ "timestamp" \in DOMAIN out'[i].data
                      /\ out'[i].data = stored
      ]_vars

\* ---- persistence and the handlers' statements
PlanEvents == {"upload_plan", "mark_plan_complete", "request_dequeue_plan"}

\* the three maps as one structure
Memory ==
    [plans |-> MACHINE_PLANS, queues |-> MACHINE_PLAN_QUEUES,
     history |-> MACHINE_PLAN_HISTORY]

NoPlans == [plans |-> EmptyDict, queues |-> EmptyDict, history |-> EmptyDict]

\* the statements of a handler that has changed a map and has its save ahead
BeforeSave ==
    {"emit_plan", "check", "emit_history", "install", "emit_next",
     "save", "save_queued", "save_active"}

MidPromotion(frame) == frame.pc \in {"emit_history", "install"}

\* what a request does to the maps when its handler runs as one action
AtomicResult(request, entry) ==
    CASE request.event = "upload_plan" ->
            upload_plan(entry.plans, entry.queues, entry.history,
                        request.machineName, request.sheet)
      [] request.event = "mark_plan_complete" ->
            handle_mark_plan_complete(entry.plans, entry.queues, entry.history,
                                      request.machineName, request.lineId, request.now)
      [] request.event = "request_dequeue_plan" ->
            handle_request_dequeue_plan(entry.plans, entry.queues, entry.history,
                                        request.sid, request.machineName, request.now)

Audience(rooms, m) == Get(rooms, m, {})

JoinAccepted(msgs) ==
    \E k \in 1..Len(msgs) : msgs[k].event = "join_confirm" /\ msgs[k].data.success = TRUE

\* C24: the room of a machine holds every live connection that has joined
\* under that name with success, now or earlier. A successful join adds the
\* connection to the room of the name and takes it out of no other room, so a
\* connection that registers again under another name stays in the room of
\* its previous machine; a rejected join changes no room; a connection leaves
\* the rooms only when it disconnects; a connection enters a room by nothing
\* but its own successful join under that name; and a live message is sent to
\* the room of its target.
C24_RoomAudience ==
    /\ [](\A sid \in DOMAIN SID_TO_MACHINE :
            sid \in Audience(ROOMS, SID_TO_MACHINE[sid]))
    /\ [][\A m \in Machines, sid \in Sids :
            /\ (req'.event = "join_machine_room" /\ req'.sid = sid
                /\ req'.machineName = m /\ JoinAccepted(out'))
               => /\ sid \in Audience(ROOMS', m)
                  /\ \A other \in Machines \ {m} :
                        Audience(ROOMS', other) = Audience(ROOMS, other)
            /\ (req'.event = "join_machine_room" /\ ~JoinAccepted(out'))
               => \A other \in Machines : Audience(ROOMS', other) = Audience(ROOMS, other)
            /\ (sid \in Audience(ROOMS, m) /\ sid \notin Audience(ROOMS', m))
               => req'.event = "disconnect" /\ req'.sid = sid
            /\ (sid \notin Audience(ROOMS, m) /\ sid \in Audience(ROOMS', m))
               => /\ req'.event = "join_machine_room" /\ req'.sid = sid
                  /\ req'.machineName = m /\ JoinAccepted(out')
            /\ (req'.event = "disconnect" /\ req'.sid = sid)
               => sid \notin Audience(ROOMS', m)
            /\ \A k \in 1..Len(out') :
                 (req'.event = "send_live_message" /\ out'[k].event = "live_message")
                 => out'[k].room = req'.machineName
      ]_vars

\* a live message goes to the room of a machine that still holds a
\* connection now registered under the other machine, while a connection
\* whose join under that machine was never accepted is outside the room
C24_Witness ==
    /\ req.event = "send_live_message"
    /\ \E k \in 1..Len(out) : out[k].event = "live_message" /\ out[k].room = req.machineName
    /\ \E sid \in DOMAIN SID_TO_MACHINE :
          /\ SID_TO_MACHINE[sid] # req.machineName
          /\ sid \in Audience(ROOMS, req.machineName)
    /\ \E sid \in Sids : sid \notin Audience(ROOMS, req.machineName)

\* ---- read-only requests
ReadEvents == {"request_queued_plans", "request_plan_history"}

\* C25: a request for the queued plans or for the plan history of a machine
\* changes no active plan, no queue, no history and not the state file; every
\* message it sends goes to the requester alone; with a machine name it sends
\* one message carrying the queue, or the history, of that machine as it
\* stands, and without one it sends nothing.
C25_ReadOnly ==
    [][req'.event \in ReadEvents
       => /\ MACHINE_PLANS' = MACHINE_PLANS
          /\ MACHINE_PLAN_QUEUES' = MACHINE_PLAN_QUEUES
          /\ MACHINE_PLAN_HISTORY' = MACHINE_PLAN_HISTORY
          /\ STATE_FILE' = STATE_FILE
          /\ \A k \in 1..Len(out') : out'[k].room = req'.sid
          /\ IF req'.machineName = ""
             THEN out' = <<>>
             ELSE /\ Len(out') = 1
                  /\ out'[1].data.machineName = req'.machineName
                  /\ IF req'.event = "request_queued_plans"
                     THEN /\ out'[1].event = "queued_plans"
                          /\ out'[1].data.queued_plans
                               = QueueOf(MACHINE_PLAN_QUEUES, req'.machineName)
                     ELSE /\ out'[1].event = "plan_history"
                          /\ out'[1].data.history
                               = HistoryOf(MACHINE_PLAN_HISTORY, req'.machineName)
      ]_vars

\* the queue of a machine with an active plan has been previewed by one
\* connection and is still waiting behind that plan
C25_Witness ==
    /\ req.event = "request_queued_plans"
    /\ req.machineName \in DOMAIN MACHINE_PLANS
    /\ QueueOf(MACHINE_PLAN_QUEUES, req.machineName) # <<>>
    /\ Len(out) = 1
    /\ out[1].room = req.sid
    /\ out[1].data.queued_plans = QueueOf(MACHINE_PLAN_QUEUES, req.machineName)

\* ---- plan conservation
\* the number of places of machine m that hold a plan: the active plan, the
\* queue positions and the history entries
Held(plans, queues, history, m) ==
    (IF m \in DOMAIN plans THEN 1 ELSE 0)
        + Len(QueueOf(queues, m)) + Len(HistoryOf(history, m))

UploadAccepted(request, msgs) ==
    /\ request.event = "upload_plan"
    /\ \E k \in 1..Len(msgs) : msgs[k].event = "http_response" /\ msgs[k].data.status = 200

\* C26: plan conservation. Across every handler the plans a machine holds
\* (active, queued, archived) are the plans it held before, plus the uploaded
\* plan when the handler is an accepted upload for that machine: no plan is
\* dropped without being archived and none is duplicated.
C26_PlanConservation ==
    [][\A m \in Machines :
         Held(MACHINE_PLANS', MACHINE_PLAN_QUEUES', MACHINE_PLAN_HISTORY', m)
           = Held(MACHINE_PLANS, MACHINE_PLAN_QUEUES, MACHINE_PLAN_HISTORY, m)
               + (IF UploadAccepted(req', out') /\ req'.machineName = m THEN 1 ELSE 0)
      ]_vars

\* C27: between handlers, a machine with a non-empty queue has an active
\* plan with at least one pending row; no machine rests on a completed or
\* empty active plan while plans wait in its queue.
C27_QueueImpliesPending ==
    \A m \in Machines :
        QueueOf(MACHINE_PLAN_QUEUES, m) # <<>>
        => /\ m \in DOMAIN MACHINE_PLANS
           /\ \E i \in 1..Len(MACHINE_PLANS[m]) : MACHINE_PLANS[m][i].status = "pending"

\* ---- stale marks
\* the handler before this one archived a plan of machine m that has a row
\* with this line id: a mark for that row, sent while the plan was active,
\* arrives after the plan has gone to the history
ArchivedJustNow(m, line_id) ==
    /\ \E k \in 1..Len(out) : out[k].event = "plan_history_update" /\ out[k].room = m
    /\ HistoryOf(MACHINE_PLAN_HISTORY, m) # <<>>
    /\ LET P == HistoryOf(MACHINE_PLAN_HISTORY, m)[Len(HistoryOf(MACHINE_PLAN_HISTORY, m))].plan
       IN  \E i \in 1..Len(P) : P[i].line_id = line_id

\* the plan that was active on m before a handler, as the handler left it:
\* still active, or the newest history entry when the handler archived it
Successor(m) ==
    IF Len(HistoryOf(MACHINE_PLAN_HISTORY', m)) > Len(HistoryOf(MACHINE_PLAN_HISTORY, m))
    THEN HistoryOf(MACHINE_PLAN_HISTORY', m)[Len(HistoryOf(MACHINE_PLAN_HISTORY', m))].plan
    ELSE ActiveOf(MACHINE_PLANS', m)

\* C28: a mark changes the status of at most one row, of the plan active on
\* its machine, and of no plan of another machine; and a mark for a row of a
\* plan that was archived just before the mark is handled changes no row of
\* the plan that succeeded it.
C28_MarkOnlyOwnPlan ==
    [][\A m \in Machines :
         (req'.event = "mark_plan_complete" /\ req'.machineName = m
          /\ m \in DOMAIN MACHINE_PLANS)
         => /\ Len(Successor(m)) = Len(MACHINE_PLANS[m])
            /\ Cardinality({i \in 1..Len(MACHINE_PLANS[m]) :
                              Successor(m)[i] # MACHINE_PLANS[m][i]}) <= 1
            /\ \A o \in Machines \ {m} :
                  ActiveOf(MACHINE_PLANS', o) = ActiveOf(MACHINE_PLANS, o)
            /\ ArchivedJustNow(m, req'.lineId) => Successor(m) = MACHINE_PLANS[m]
      ]_vars

\* ---- persist before announce
\* the messages that tell a machine room of its active plan, its queue depth
\* or its history
Announcements == {"update_worker_plan", "queued_plan_count", "plan_history_update"}

\* the messages a step hands to the socket: all of out' when the step enters
\* a handler, the new tail of out' when it continues one
NewlyEmitted == IF running = <<>> THEN out' ELSE SubSeq(out', Len(out) + 1, Len(out'))

\* what the state file says about the subject of an announcement
OnFile(file, msg) ==
    /\ file # <<>>
    /\ CASE msg.event = "update_worker_plan" ->
              ActiveOf(file[1].plans, msg.room) = msg.data.plan
         [] msg.event = "queued_plan_count" ->
              Len(QueueOf(file[1].queues, msg.room)) = msg.data.count
         [] msg.event = "plan_history_update" ->
              HistoryOf(file[1].history, msg.room) = msg.data.history

\* C29: persist before announce. Whenever a plan handler hands the active
\* plan, the queue depth or the history of a machine to the machine room, the
\* state file already holds what the message says; and when the process
\* restarts, the history it loads is the history every promotion announced by
\* the last handler showed.
C29_PersistBeforeAnnounce ==
    /\ [][\A k \in 1..Len(NewlyEmitted) :
            (NewlyEmitted[k].event \in Announcements /\ NewlyEmitted[k].room \in Machines)
            => OnFile(STATE_FILE', NewlyEmitted[k])
         ]_vars
    /\ [][req'.event = "restart"
          => \A k \in 1..Len(out) :
                out[k].event = "plan_history_update"
                => HistoryOf(MACHINE_PLAN_HISTORY', out[k].room) = out[k].data.history
         ]_vars

\* ---- downtime failures
DowntimeRefused(msgs) ==
    \E k \in 1..Len(msgs) :
        msgs[k].event = "downtime_submission_success" /\ msgs[k].data.success = FALSE

\* C30: whenever a downtime submission is answered with a failure (a missing
\* field, a time that does not parse, or a write of the downtime file that
\* fails), the downtime log in memory is as it was before the submission.
C30_FailureLeavesLog ==
    [][(req'.event = "submit_downtime" /\ DowntimeRefused(out'))
       => DOWNTIME_LOG' = DOWNTIME_LOG
      ]_vars

\* ---- scrap echoes
\* the echoes of a scrap entry among the messages of a handler
ScrapEchoes(msgs) == {k \in 1..Len(msgs) : msgs[k].event = "submit_scrap_data"}

\* C31: a scrap submission appends exactly one entry to the scrap log, the
\* earlier entries staying as they were, and sends exactly one echo of it;
\* no submission is echoed twice.
C31_OneEntryOneEcho ==
    [][req'.event = "submit_scrap_data"
       => /\ Len(SCRAP_LOG') = Len(SCRAP_LOG) + 1
          /\ \A i \in 1..Len(SCRAP_LOG) : SCRAP_LOG'[i] = SCRAP_LOG[i]
          /\ Cardinality(ScrapEchoes(out')) = 1
      ]_vars

====
